---- MODULE Spec2Model ----
(***************************************************************************)
(* A model of the lumatone-rs MIDI SysEx driver.                           *)
(*                                                                         *)
(*   - the SysEx framing helpers (midi/src/sysex.rs) and the response      *)
(*     decoder (lumatone-core/src/midi/responses.rs) as operators on byte  *)
(*     sequences;                                                          *)
(*   - the tokio driver (midi/src/driver.rs): State::next, State::enter    *)
(*     and the select loop MidiDriverInternal::run, one action per select  *)
(*     branch, each action a whole loop iteration (specification Spec);    *)
(*   - the state machine of the crux port (midi/src/driver/state.rs),      *)
(*     State::next and State::enter, driven by arbitrary actions           *)
(*     (specification SpecSM);                                             *)
(*   - the framing helpers, the command encoders and response decoders,    *)
(*     the preset file (keymap/src/ltn.rs, keymap/src/tables.rs),          *)
(*     State::next and State::enter of driver/state.rs on their own and    *)
(*     MidiApp::update of the crux port (midi/src/app.rs), each applied    *)
(*     to inputs drawn from bounded sets (specification SpecCodec).        *)
(***************************************************************************)
EXTENDS Integers, Sequences, FiniteSets, TLC

VARIABLES
  \* ---- tokio runtime (midi/src/driver.rs) ----
  state,            \* `state` local of MidiDriverInternal::run
  running,          \* TRUE while the loop of run() has not returned
  receive_timeout,  \* MidiDriverInternal.receive_timeout is Some(_)
  retry_timeout,    \* MidiDriverInternal.retry_timeout is Some(_)
  commands,         \* the mpsc channel behind MidiDriver.command_tx
  incoming_messages, \* LumatoneIO.incoming_messages
  done_signal,      \* a () is pending on the done channel
  wire,             \* frames written by LumatoneIO::send the device has not answered
  lastSent,         \* the latest frame written by LumatoneIO::send, or <<>>
  nextId,           \* id of the next submission MidiDriver::send creates
  delivered,        \* values written to responders, in order: [id, res]
  refused,          \* submissions whose MidiDriver::send got DeviceSendError
  last,             \* summary of the latest loop iteration
  gap,              \* what the loop has observed since the latest send
  \* ---- crux state machine (midi/src/driver/state.rs) ----
  sm,               \* the State value
  smFrom,           \* the State the latest step was applied to
  smStep,           \* the Action of the latest step
  smEffects,        \* the Effects the latest step produced, in order
  smSent,           \* the submission of the latest SendMidiMessage effect
  smNextId,         \* id of the next submission
  \* ---- pure functions: framing, codec ----
  cxOp,             \* the function applied last
  cxIn,             \* its arguments
  cxOut             \* what it returned, or that it panicked

rtVars == <<state, running, receive_timeout, retry_timeout, commands, incoming_messages,
            done_signal, wire, lastSent, nextId, delivered,
            refused, last, gap>>
smVars == <<sm, smFrom, smStep, smEffects, smSent, smNextId>>
cxVars == <<cxOp, cxIn, cxOut>>
vars == <<state, running, receive_timeout, retry_timeout, commands, incoming_messages,
          done_signal, wire, lastSent, nextId, delivered,
          refused, last, gap, sm, smFrom, smStep, smEffects, smSent, smNextId,
          cxOp, cxIn, cxOut>>

----------------------------------------------------------------------------
\* Bounds of the model

\* submissions one run of the tokio driver accepts
MaxSubs == 3
\* submissions handed to the state machine of driver/state.rs
MaxSmSubs == 3
\* the values Uuid::new_v4() is drawn from
MaxUuid == 2
\* the length of the longest byte sequence tried in full
MaxShortLen == 2
\* the largest number of data bytes given to create_sysex
MaxDataLen == 5
\* the places at which a curve steps from 0 to 127
MaxCurveStep == 2
\* the largest number of keys set in a preset
MaxSetKeys == 2
\* the largest key type written into a preset file
MaxKTyp == 2
\* the longest send queue of a state given to State::next and State::enter
MaxQueued == 2

----------------------------------------------------------------------------
\* Program constants

SYSEX_START == 240
SYSEX_END == 247
MANUFACTURER_ID == <<0, 33, 80>>
BOARD_IND == 3
CMD_ID == 4
MSG_STATUS == 5
PAYLOAD_INIT == 6
TEST_ECHO == 127
\* CommandId values
SaveProgram == 2
SetVelocityConfig == 8
SetFaderConfig == 11
SetAftertouchConfig == 16
GetVelocityConfig == 29
GetFaderConfig == 30
GetAftertouchConfig == 31
SetVelocityIntervals == 32
GetVelocityIntervals == 33
SetLumatouchConfig == 45
GetLumatouchConfig == 48
LumaPing == 51
\* the largest CommandId (InvertSustainPedal); the enum is dense from 0
MaxCommandId == 69
\* the length of a SysexTable, and of a VelocityIntervalTable and its payload
TableLen == 128
IntervalLen == 127
IntervalPayloadLen == 254
\* LumatoneKeyIndex::MAX_VALUE, and the boards Octave1..Octave5
MAX_KEY_INDEX == 55
NUM_BOARDS == 5
\* BoardIndex::Server
Server == 0
\* bytes of ResponseStatusCode
NackByte == 0
AckByte == 1
BusyByte == 2
ErrorByte == 3
StateByte == 4

----------------------------------------------------------------------------
\* Results

Ok(v) == [ok |-> TRUE, v |-> v]
Err(e) == [ok |-> FALSE, v |-> e]

\* midi/src/error.rs: LumatoneMidiError::InvalidResponseMessage(String)
InvalidResponseMessage(text) == <<"InvalidResponseMessage", text>>

\* x / 2^k and x mod 2^k on naturals, for the shifts and masks of the codec
Shr(x, k) == x \div (2 ^ k)
Low7(x) == x % 128

----------------------------------------------------------------------------
\* midi/src/sysex.rs

\* the slice msg[start..=end] (0-based, inclusive) of a byte sequence
Slice(msg, start, end) == SubSeq(msg, start + 1, end + 1)

\* strip_sysex_markers underflows `end -= 1` on the one-byte message [F7]:
\* debug builds panic on the subtraction, release builds on the slice
strip_panics(msg) == Len(msg) = 1 /\ msg[1] = SYSEX_END

strip_sysex_markers(msg) ==
  IF Len(msg) = 0 THEN msg
  ELSE LET start == IF msg[1] = SYSEX_START THEN 1 ELSE 0
           end0  == Len(msg) - 1
           end   == IF msg[end0 + 1] = SYSEX_END THEN end0 - 1 ELSE end0
       IN  Slice(msg, start, end)

is_lumatone_message(msg0) ==
  LET msg == strip_sysex_markers(msg0) IN
  IF Len(msg) < 3 THEN FALSE
  ELSE \A i \in 1..3 : MANUFACTURER_ID[i] = msg[i]

message_payload(msg0) ==
  LET msg == strip_sysex_markers(msg0) IN
  IF Len(msg) <= PAYLOAD_INIT
  THEN Err(<<"MessageTooShort", PAYLOAD_INIT + 1, Len(msg)>>)
  ELSE Ok(Slice(msg, PAYLOAD_INIT, Len(msg) - 1))

message_command_id(msg0) ==
  LET msg == strip_sysex_markers(msg0) IN
  IF Len(msg) <= CMD_ID
  THEN Err(<<"MessageTooShort", CMD_ID + 1, Len(msg)>>)
  ELSE LET cmd_id == msg[CMD_ID + 1] IN
       IF cmd_id <= MaxCommandId THEN Ok(<<cmd_id>>)
       ELSE Err(<<"UnknownCommandId", cmd_id>>)

\* message_answer_code reading the byte before the status byte
message_answer_code_of_command_byte(msg0) ==
  LET msg == strip_sysex_markers(msg0) IN
  IF Len(msg) <= MSG_STATUS THEN "Unknown"
  ELSE LET status_byte == msg[CMD_ID + 1] IN
       CASE status_byte = NackByte  -> "Nack"
         [] status_byte = AckByte   -> "Ack"
         [] status_byte = BusyByte  -> "Busy"
         [] status_byte = ErrorByte -> "Error"
         [] status_byte = StateByte -> "State"
         [] OTHER                   -> "Unknown"

\* message_answer_code without the arm of ResponseStatusCode::State
message_answer_code_without_state(msg0) ==
  LET msg == strip_sysex_markers(msg0) IN
  IF Len(msg) <= MSG_STATUS THEN "Unknown"
  ELSE LET status_byte == msg[MSG_STATUS + 1] IN
       CASE status_byte = NackByte  -> "Nack"
         [] status_byte = AckByte   -> "Ack"
         [] status_byte = BusyByte  -> "Busy"
         [] status_byte = ErrorByte -> "Error"
         [] OTHER                   -> "Unknown"

message_answer_code(msg0) ==
  LET msg == strip_sysex_markers(msg0) IN
  IF Len(msg) <= MSG_STATUS THEN "Unknown"
  ELSE LET status_byte == msg[MSG_STATUS + 1] IN
       CASE status_byte = NackByte  -> "Nack"
         [] status_byte = AckByte   -> "Ack"
         [] status_byte = BusyByte  -> "Busy"
         [] status_byte = ErrorByte -> "Error"
         [] status_byte = StateByte -> "State"
         [] OTHER                   -> "Unknown"

is_response_to_message(outgoing0, incoming0) ==
  LET outgoing == strip_sysex_markers(outgoing0)
      incoming == strip_sysex_markers(incoming0)
  IN  IF ~is_lumatone_message(incoming) THEN FALSE
      ELSE IF Len(incoming) <= CMD_ID \/ Len(outgoing) < CMD_ID THEN FALSE
      ELSE /\ incoming[CMD_ID + 1] = outgoing[CMD_ID + 1]
           /\ incoming[BOARD_IND + 1] = outgoing[BOARD_IND + 1]

\* what a call leaves: a value, or a panic of the thread
Returned(v) == [panic |-> FALSE, v |-> v]
Panicked == [panic |-> TRUE, v |-> <<>>]

\* is_response_to_message panics where one of its strip_sysex_markers calls
\* does (is_lumatone_message strips the stripped frame once more), and on
\* outgoing[CMD_ID] when the stripped outgoing frame has exactly CMD_ID bytes
is_response_to_message_panics(outgoing0, incoming0) ==
  \/ strip_panics(outgoing0)
  \/ strip_panics(incoming0)
  \/ strip_panics(strip_sysex_markers(incoming0))
  \/ LET outgoing == strip_sysex_markers(outgoing0)
         incoming == strip_sysex_markers(incoming0)
     IN  /\ is_lumatone_message(incoming)
         /\ Len(incoming) > CMD_ID
         /\ Len(outgoing) = CMD_ID

\* a padding that leaves 10 bytes behind the start marker
Pad_behind_start(sysex) ==
  IF Len(sysex) < 11
  THEN sysex \o [i \in 1..(11 - Len(sysex)) |-> 0]
  ELSE sysex

\* the padding of create_sysex; sysex starts with the start marker
Pad(sysex) ==
  IF Len(sysex) < 10
  THEN sysex \o [i \in 1..(10 - Len(sysex)) |-> 0]
  ELSE sysex

create_sysex(board_index, cmd, data) ==
  Pad(<<SYSEX_START>> \o MANUFACTURER_ID \o <<board_index, cmd>> \o data)
    \o <<SYSEX_END>>

----------------------------------------------------------------------------
\* midi/src/commands.rs: the commands of the model are Ping(v) and
\* SaveProgram(n), written <<"Ping", v>> and <<"SaveProgram", n>>

reverse_table(t) == [i \in 1..Len(t) |-> t[Len(t) + 1 - i]]

create_table_sysex(cmd, table) == create_sysex(Server, cmd, table)

\* each u16 of the table becomes the two bytes (n >> 6) & 0x3f and n & 0x3f
encode_set_velocity_interval_table(table) ==
  create_sysex(Server, SetVelocityIntervals,
               [j \in 1..(2 * Len(table)) |->
                  IF j % 2 = 1 THEN Shr(table[(j + 1) \div 2], 6) % 64
                  ELSE table[j \div 2] % 64])

encode_ping(value) ==
  LET val == value % (2 ^ 28) IN
  create_sysex(Server, LumaPing,
               <<TEST_ECHO, Low7(Shr(val, 14)), Low7(Shr(val, 7)), Low7(val)>>)

to_sysex_message(command) ==
  CASE command[1] = "Ping" -> encode_ping(command[2])
    [] command[1] = "SaveProgram" -> create_sysex(Server, SaveProgram, <<command[2]>>)
    [] command[1] = "SetVelocityConfig" ->
         create_table_sysex(SetVelocityConfig, reverse_table(command[2]))
    [] command[1] = "SetFaderConfig" -> create_table_sysex(SetFaderConfig, command[2])
    [] command[1] = "SetAftertouchConfig" ->
         create_table_sysex(SetAftertouchConfig, command[2])
    [] command[1] = "SetLumatouchConfig" ->
         create_table_sysex(SetLumatouchConfig, command[2])
    [] command[1] = "SetVelocityIntervals" ->
         encode_set_velocity_interval_table(command[2])

----------------------------------------------------------------------------
\* lumatone-core/src/midi/responses.rs

decode_ping(msg) ==
  IF ~is_lumatone_message(msg) THEN Err(<<"NotLumatoneMessage">>)
  ELSE LET cmd_id == message_command_id(msg) IN
    IF ~cmd_id.ok THEN cmd_id
    ELSE IF cmd_id.v[1] # LumaPing
      THEN Err(<<"UnexpectedCommandId", LumaPing, cmd_id.v[1]>>)
    ELSE LET payload == message_payload(msg) IN
      IF ~payload.ok THEN payload
      ELSE IF Len(payload.v) < 4
        THEN Err(<<"MessagePayloadTooShort", 4, Len(payload.v)>>)
      ELSE IF payload.v[1] # TEST_ECHO THEN Err(InvalidResponseMessage("invalid echo flag"))
      ELSE Ok(<<"Pong", payload.v[2] * (2 ^ 14) + payload.v[3] * (2 ^ 7)
                          + payload.v[4]>>)

\* valid_lumatone_msg, message_payload and the length check of
\* payload_with_len: the first len bytes of the payload
payload_with_len(msg0, len) ==
  LET first(payload) ==
        IF ~payload.ok THEN payload
        ELSE IF Len(payload.v) < len
          THEN Err(<<"MessagePayloadTooShort", len, Len(payload.v)>>)
        ELSE Ok(Slice(payload.v, 0, len - 1))
      valid(msg) ==
        IF ~is_lumatone_message(msg) THEN Err(<<"NotLumatoneMessage">>)
        ELSE first(message_payload(msg))
  IN  valid(strip_sysex_markers(msg0))

unpack_sysex_config_table(msg) == payload_with_len(msg, TableLen)

\* (hi << 6) | lo for bytes below 128: bit 6 of lo falls onto bit 0 of hi
ShiftOr(hi, lo, k) ==
  hi * (2 ^ k) + (lo % (2 ^ k))
    + (IF k = 6 /\ lo >= 64 /\ hi % 2 = 0 THEN 64 ELSE 0)

\* unpack_12bit_from_7bit shifting the first byte of a pair by 7 bits
unpack_12bit_shifted_by_7(payload) ==
  [i \in 1..(Len(payload) \div 2) |-> ShiftOr(payload[2 * i - 1], payload[2 * i], 7)]

unpack_12bit_from_7bit(payload) ==
  [i \in 1..(Len(payload) \div 2) |-> ShiftOr(payload[2 * i - 1], payload[2 * i], 6)]

unpack_velocity_intervals(msg) ==
  LET unpack(payload) ==
        IF ~payload.ok THEN payload
        ELSE Ok(<<"VelocityIntervalConfig", unpack_12bit_from_7bit(payload.v)>>)
  IN  unpack(payload_with_len(msg, IntervalPayloadLen))

\* Response::from_sysex_message.  Of the commands that have a decoder of
\* their own LumaPing, the four Get...Config of the curves and
\* GetVelocityIntervals are modelled; every other id takes the `_` arm.
from_sysex_message(msg) ==
  LET cmd_id == message_command_id(msg) IN
  IF ~cmd_id.ok THEN cmd_id
  ELSE LET config(name, table) == IF table.ok THEN Ok(<<name, table.v>>) ELSE table
           response(id) ==
             CASE id = LumaPing -> decode_ping(msg)
               [] id = GetVelocityConfig ->
                    config("OnOffVelocityConfig", unpack_sysex_config_table(msg))
               [] id = GetFaderConfig ->
                    config("FaderConfig", unpack_sysex_config_table(msg))
               [] id = GetAftertouchConfig ->
                    config("AftertouchConfig", unpack_sysex_config_table(msg))
               [] id = GetLumatouchConfig ->
                    config("LumatouchConfig", unpack_sysex_config_table(msg))
               [] id = GetVelocityIntervals -> unpack_velocity_intervals(msg)
               [] OTHER -> Ok(<<"Ack", id>>)
       IN  response(cmd_id.v[1])

----------------------------------------------------------------------------
\* Values shared by the two state machines

\* a CommandSubmission: the command and the responder, named by its id
Sub(id, command) == [id |-> id, command |-> command]
NoSub == Sub(0, <<"None", 0>>)

\* a State; the fields a variant does not have hold NoSub, <<>> and 0
St(kind, send_queue, command_sent, to_retry, response_msg, timeout_id) ==
  [kind |-> kind, send_queue |-> send_queue, command_sent |-> command_sent,
   to_retry |-> to_retry, response_msg |-> response_msg,
   timeout_id |-> timeout_id]

\* a Failed that is the Idle state
Failed_as_Idle == St("Idle", <<>>, NoSub, NoSub, <<>>, 0)

Idle == St("Idle", <<>>, NoSub, NoSub, <<>>, 0)
ProcessingQueue(q) == St("ProcessingQueue", q, NoSub, NoSub, <<>>, 0)
AwaitingResponse(q, sent, tid) == St("AwaitingResponse", q, sent, NoSub, <<>>, tid)
ProcessingResponse(q, sent, msg) == St("ProcessingResponse", q, sent, NoSub, msg, 0)
WaitingToRetry(q, retry, tid) == St("WaitingToRetry", q, NoSub, retry, <<>>, tid)
Failed == St("Failed", <<>>, NoSub, NoSub, <<>>, 0)

\* an Action; SubmitCommand and MessageSent carry a submission,
\* MessageReceived carries a frame
Act(type, sub, msg) == [type |-> type, sub |-> sub, msg |-> msg]
SubmitCommand(sub) == Act("SubmitCommand", sub, <<>>)
MessageSent(sub) == Act("MessageSent", sub, <<>>)
MessageReceived(msg) == Act("MessageReceived", NoSub, msg)
\* a busy device taken as a response that has been dispatched
DeviceBusy_given_up == Act("ResponseDispatched", NoSub, <<>>)
DeviceBusy == Act("DeviceBusy", NoSub, <<>>)
ResponseDispatched == Act("ResponseDispatched", NoSub, <<>>)
ResponseTimedOut == Act("ResponseTimedOut", NoSub, <<>>)
ReadyToRetry == Act("ReadyToRetry", NoSub, <<>>)
QueueEmpty == Act("QueueEmpty", NoSub, <<>>)
NoAction == Act("None", NoSub, <<>>)

\* an Effect; DispatchAction exists in driver/effects.rs only
NoRes == Err(<<"-">>)
Eff(type, sub, res, action) ==
  [type |-> type, sub |-> sub, res |-> res, action |-> action]
SendMidiMessage(sub) == Eff("SendMidiMessage", sub, NoRes, NoAction)
StartReceiveTimeout == Eff("StartReceiveTimeout", NoSub, NoRes, NoAction)
StartRetryTimeout == Eff("StartRetryTimeout", NoSub, NoRes, NoAction)
NotifyMessageResponse(sub, res) == Eff("NotifyMessageResponse", sub, res, NoAction)
DispatchAction(action) == Eff("DispatchAction", NoSub, NoRes, action)
NoEffect == Eff("None", NoSub, NoRes, NoAction)

\* a push_back that puts the submission at the front of the queue
push_back_at_front(q, x) == <<x>> \o q

\* a push_back that empties the queue first
push_back_replacing(q, x) == <<x>>

\* a push_front that puts the submission at the back of the queue
push_front_at_back(q, x) == Append(q, x)

\* VecDeque::push_back and push_front as State::next uses them
push_back(q, x) == Append(q, x)
push_front(q, x) == <<x>> \o q

----------------------------------------------------------------------------
\* midi/src/driver.rs: State::next of the tokio driver.  The arms are tried
\* in the order of the match.

driver_next(s, a) ==
  CASE a.type = "SubmitCommand" /\ s.kind = "Idle" ->
         ProcessingQueue(push_back(<<>>, a.sub))
    [] a.type = "SubmitCommand" /\ s.kind = "AwaitingResponse" ->
         AwaitingResponse(push_back(s.send_queue, a.sub), s.command_sent, 0)
    [] a.type = "SubmitCommand" /\ s.kind = "WaitingToRetry" ->
         WaitingToRetry(push_back(s.send_queue, a.sub), s.to_retry, 0)
    [] a.type = "SubmitCommand" /\ s.kind = "ProcessingQueue" ->
         ProcessingQueue(push_back(s.send_queue, a.sub))
    [] a.type = "SubmitCommand" /\ s.kind = "ProcessingResponse" ->
         ProcessingResponse(push_back(s.send_queue, a.sub), s.command_sent,
                            s.response_msg)
    [] a.type = "MessageSent" /\ s.kind = "ProcessingQueue" ->
         AwaitingResponse(s.send_queue, a.sub, 0)
    [] a.type = "MessageReceived" /\ s.kind = "AwaitingResponse" ->
         ProcessingResponse(s.send_queue, s.command_sent, a.msg)
    [] a.type = "MessageReceived" /\ s.kind # "AwaitingResponse" -> s
    [] a.type = "ResponseDispatched" /\ s.kind = "ProcessingResponse" ->
         ProcessingQueue(s.send_queue)
    [] a.type = "ResponseTimedOut" /\ s.kind = "AwaitingResponse" ->
         ProcessingQueue(s.send_queue)
    [] a.type = "ResponseTimedOut" /\ s.kind # "AwaitingResponse" -> s
    [] a.type = "ReadyToRetry" /\ s.kind = "WaitingToRetry" ->
         ProcessingQueue(push_front(s.send_queue, s.to_retry))
    [] a.type = "QueueEmpty" /\ s.kind = "ProcessingQueue" ->
         IF s.send_queue # <<>> THEN Failed ELSE Idle
    [] a.type = "ReadyToRetry" /\ s.kind # "WaitingToRetry" -> s
    [] OTHER -> Failed

\* what State::enter returns, and the state it leaves behind (enter takes
\* &mut self and pops the front of the queue in ProcessingQueue)
Entered(s, effect, action) == [state |-> s, effect |-> effect, action |-> action]

\* midi/src/driver.rs: State::enter of the tokio driver
driver_enter(s) ==
  CASE s.kind = "Idle" -> Entered(s, NoEffect, NoAction)
    [] s.kind = "ProcessingQueue" ->
         IF s.send_queue = <<>> THEN Entered(s, NoEffect, QueueEmpty)
         ELSE Entered(ProcessingQueue(Tail(s.send_queue)),
                      SendMidiMessage(Head(s.send_queue)),
                      MessageSent(Head(s.send_queue)))
    [] s.kind = "WaitingToRetry" -> Entered(s, StartRetryTimeout, NoAction)
    [] s.kind = "AwaitingResponse" -> Entered(s, StartReceiveTimeout, NoAction)
    [] s.kind = "ProcessingResponse" ->
         LET status == message_answer_code(s.response_msg) IN
         CASE status = "Busy" -> Entered(s, NoEffect, DeviceBusy)
           [] status = "State" -> Entered(s, NoEffect, DeviceBusy)
           [] status = "Error" ->
                Entered(s, NotifyMessageResponse(s.command_sent,
                                                 Err(InvalidResponseMessage("error flag set"))),
                        ResponseDispatched)
           [] status = "Nack" ->
                Entered(s, NotifyMessageResponse(s.command_sent,
                                                 Err(InvalidResponseMessage("NACK"))),
                        ResponseDispatched)
           [] status = "Ack" ->
                Entered(s, NotifyMessageResponse(s.command_sent,
                                                 from_sysex_message(s.response_msg)),
                        ResponseDispatched)
           [] OTHER -> Entered(s, NoEffect, ResponseDispatched)
    [] OTHER -> Entered(s, NoEffect, NoAction)

----------------------------------------------------------------------------
\* midi/src/driver/state.rs: the state machine of the crux port.  tid is the
\* value Uuid::new_v4() returns in the arms that call it.

\* a State::next in which every pair that is not a transition to another
\* state or a SubmitCommand fails
state_next_strict(s, a, tid) ==
  CASE a.type = "SubmitCommand" /\ s.kind # "Failed" ->
         St(IF s.kind = "Idle" THEN "ProcessingQueue" ELSE s.kind,
            Append(s.send_queue, a.sub), s.command_sent, s.to_retry,
            s.response_msg, s.timeout_id)
    [] a.type = "MessageSent" /\ s.kind = "ProcessingQueue" ->
         AwaitingResponse(s.send_queue, a.sub, tid)
    [] a.type = "MessageReceived" /\ s.kind = "AwaitingResponse" ->
         ProcessingResponse(s.send_queue, s.command_sent, a.msg)
    [] a.type = "ResponseDispatched" /\ s.kind = "ProcessingResponse" ->
         ProcessingQueue(s.send_queue)
    [] a.type = "DeviceBusy" /\ s.kind = "ProcessingResponse" ->
         WaitingToRetry(s.send_queue, s.command_sent, tid)
    [] a.type = "ResponseTimedOut" /\ s.kind = "AwaitingResponse" ->
         ProcessingQueue(s.send_queue)
    [] a.type = "ReadyToRetry" /\ s.kind = "WaitingToRetry" ->
         ProcessingQueue(<<s.to_retry>> \o s.send_queue)
    [] a.type = "QueueEmpty" /\ s.kind = "ProcessingQueue" /\ s.send_queue = <<>> ->
         Idle
    [] OTHER -> Failed

state_next(s, a, tid) ==
  CASE a.type = "SubmitCommand" /\ s.kind = "Idle" ->
         ProcessingQueue(push_back(<<>>, a.sub))
    [] a.type = "SubmitCommand" /\ s.kind = "AwaitingResponse" ->
         AwaitingResponse(push_back(s.send_queue, a.sub), s.command_sent,
                          s.timeout_id)
    [] a.type = "SubmitCommand" /\ s.kind = "WaitingToRetry" ->
         WaitingToRetry(push_back(s.send_queue, a.sub), s.to_retry, s.timeout_id)
    [] a.type = "SubmitCommand" /\ s.kind = "ProcessingQueue" ->
         ProcessingQueue(push_back(s.send_queue, a.sub))
    [] a.type = "SubmitCommand" /\ s.kind = "ProcessingResponse" ->
         ProcessingResponse(push_back(s.send_queue, a.sub), s.command_sent,
                            s.response_msg)
    [] a.type = "MessageSent" /\ s.kind = "ProcessingQueue" ->
         AwaitingResponse(s.send_queue, a.sub, tid)
    [] a.type = "MessageReceived" /\ s.kind = "AwaitingResponse" ->
         ProcessingResponse(s.send_queue, s.command_sent, a.msg)
    [] a.type = "MessageReceived" /\ s.kind # "AwaitingResponse" -> s
    [] a.type = "ResponseDispatched" /\ s.kind = "ProcessingResponse" ->
         ProcessingQueue(s.send_queue)
    [] a.type = "DeviceBusy" /\ s.kind = "ProcessingResponse" ->
         WaitingToRetry(s.send_queue, s.command_sent, tid)
    [] a.type = "ResponseTimedOut" /\ s.kind = "AwaitingResponse" ->
         ProcessingQueue(s.send_queue)
    [] a.type = "ResponseTimedOut" /\ s.kind # "AwaitingResponse" -> s
    [] a.type = "ReadyToRetry" /\ s.kind = "WaitingToRetry" ->
         ProcessingQueue(push_front(s.send_queue, s.to_retry))
    [] a.type = "QueueEmpty" /\ s.kind = "ProcessingQueue" ->
         IF s.send_queue # <<>> THEN Failed ELSE Idle
    [] a.type = "ReadyToRetry" /\ s.kind # "WaitingToRetry" -> s
    [] OTHER -> Failed

\* State::enter of driver/state.rs: the state it leaves behind and the
\* Option<Effect> it returns
state_enter(s) ==
  CASE s.kind = "Idle" -> Entered(s, NoEffect, NoAction)
    [] s.kind = "ProcessingQueue" ->
         IF s.send_queue = <<>>
         THEN Entered(s, DispatchAction(QueueEmpty), NoAction)
         ELSE Entered(ProcessingQueue(Tail(s.send_queue)),
                      SendMidiMessage(Head(s.send_queue)), NoAction)
    [] s.kind = "WaitingToRetry" -> Entered(s, StartRetryTimeout, NoAction)
    [] s.kind = "AwaitingResponse" -> Entered(s, StartReceiveTimeout, NoAction)
    [] s.kind = "ProcessingResponse" ->
         LET status == message_answer_code(s.response_msg) IN
         CASE status = "Busy" -> Entered(s, DispatchAction(DeviceBusy), NoAction)
           [] status = "State" -> Entered(s, DispatchAction(DeviceBusy), NoAction)
           [] status = "Error" ->
                Entered(s, NotifyMessageResponse(s.command_sent,
                                                 Err(InvalidResponseMessage("error flag set"))),
                        NoAction)
           [] status = "Nack" ->
                Entered(s, NotifyMessageResponse(s.command_sent,
                                                 Err(InvalidResponseMessage("NACK"))),
                        NoAction)
           [] status = "Ack" ->
                Entered(s, NotifyMessageResponse(s.command_sent,
                                                 from_sysex_message(s.response_msg)),
                        NoAction)
           [] OTHER -> Entered(s, NoEffect, NoAction)
    [] OTHER -> Entered(s, NoEffect, NoAction)

\* midi/src/app.rs: MidiApp::handle_driver_action with handle_driver_effect:
\* next, enter, and for a DispatchAction effect the same again with the
\* action it carries.  The result is the driver state and the effects in
\* the order they were handled.
RECURSIVE handle_driver_action(_, _, _)
handle_driver_action(s, a, tid) ==
  LET e == state_enter(state_next(s, a, tid)) IN
  IF e.effect.type = "None" THEN [state |-> e.state, effects |-> <<>>]
  ELSE IF e.effect.type = "DispatchAction"
  THEN LET r == handle_driver_action(e.state, e.effect.action, tid)
       IN  [state |-> r.state, effects |-> <<e.effect>> \o r.effects]
  ELSE [state |-> e.state, effects |-> <<e.effect>>]

----------------------------------------------------------------------------
\* The world around the tokio driver: callers and the device

\* the commands callers submit
Commands == {<<"Ping", 1>>, <<"SaveProgram", 3>>}

\* a frame as the MIDI input delivers it
Frame(board, cmd, status, body) ==
  <<SYSEX_START>> \o MANUFACTURER_ID \o <<board, cmd, status>> \o body
    \o <<SYSEX_END>>

\* the bytes the device echoes after the status byte of its reply
EchoBody(outgoing) ==
  LET msg == strip_sysex_markers(outgoing) IN Slice(msg, MSG_STATUS, Len(msg) - 1)

\* the replies to a frame: one per status byte (9 stands for a byte outside
\* ResponseStatusCode) with the echoed body, and an Ack whose body has a
\* wrong echo flag
Replies(outgoing, statuses) ==
  LET msg == strip_sysex_markers(outgoing)
      b == msg[BOARD_IND + 1]
      c == msg[CMD_ID + 1]
      body == EchoBody(outgoing)
  IN  {Frame(b, c, st, body) : st \in statuses}
        \cup {Frame(b, c, AckByte, <<0>> \o Tail(body))}

\* The replies the device of the tokio runtime gives.  State::enter handles
\* Error in the arm next to Nack and State in the arm of Busy, with the same
\* effect and action; the runtime is explored with Nack and Busy, and
\* State::enter of driver/state.rs below with all of them.
DeviceReplies(outgoing) == Replies(outgoing, {NackByte, AckByte, BusyByte, 9})

\* frames the device sends on its own: a note-on of a pressed key
UnsolicitedFrames == {<<144, 60, 100>>}

----------------------------------------------------------------------------
\* midi/src/driver.rs: MidiDriverInternal

\* the summary of one loop iteration kept in `last`
Last(a, from, effect, io_ok, exit, seen) ==
  [act |-> a.type, sub |-> a.sub, msg |-> a.msg, from |-> from,
   effect |-> effect, io_ok |-> io_ok, exit |-> exit, gap |-> seen,
   earlier |-> lastSent]

\* perform_effect returning Err whenever the I/O of the effect failed
effect_result_strict(effect, io_ok) == io_ok

\* the Result of perform_effect: the error of LumatoneIO::send is
\* propagated with `?`, the error of response_tx.send is logged
effect_result(effect, io_ok) == effect.type = "SendMidiMessage" => io_ok

\* MidiDriverInternal::perform_effect: what the effect leaves behind, and
\* whether it returned Ok.  io_ok says whether the I/O of the effect
\* succeeded: LumatoneIO::send for SendMidiMessage, response_tx.send for
\* NotifyMessageResponse, which fails when the caller has dropped the future
\* of MidiDriver::send and the receiver with it.
perform_effect(effect, io_ok, rt, ry) ==
  [ok |-> effect_result(effect, io_ok),
   wire |-> IF effect.type = "SendMidiMessage" /\ io_ok
            THEN Append(wire, to_sysex_message(effect.sub.command))
            ELSE wire,
   lastSent |-> IF effect.type = "SendMidiMessage" /\ io_ok
                THEN to_sysex_message(effect.sub.command)
                ELSE lastSent,
   receive_timeout |-> IF effect.type = "StartReceiveTimeout" THEN TRUE ELSE rt,
   retry_timeout |-> IF effect.type = "StartRetryTimeout" THEN TRUE ELSE ry,
   delivered |-> IF effect.type = "NotifyMessageResponse" /\ io_ok
                 THEN Append(delivered, [id |-> effect.sub.id, res |-> effect.res])
                 ELSE delivered]

\* the body of the loop of run() after the select: `a` is the action the
\* select produced, rt and ry the timers as the branch left them, obs what
\* the branch observed
Iterate(a, rt, ry, obs) ==
  LET s1 == driver_next(state, a)
      seen == gap \cup obs
  IN  IF s1.kind = "Failed"
      THEN /\ state' = s1
           /\ running' = FALSE
           /\ receive_timeout' = rt
           /\ retry_timeout' = ry
           /\ gap' = seen
           /\ last' = Last(a, state, NoEffect, TRUE, "failed", seen)
           /\ UNCHANGED <<wire, lastSent, delivered>>
      ELSE LET e == driver_enter(s1) IN
           \E io_ok \in (IF e.effect.type \in {"SendMidiMessage", "NotifyMessageResponse"}
                          THEN BOOLEAN ELSE {TRUE}) :
             LET done == perform_effect(e.effect, io_ok, rt, ry) IN
             /\ state' = IF done.ok /\ e.action.type # "None"
                         THEN driver_next(e.state, e.action)
                         ELSE e.state
             /\ running' = done.ok
             /\ receive_timeout' = done.receive_timeout
             /\ retry_timeout' = done.retry_timeout
             /\ wire' = done.wire
             /\ lastSent' = done.lastSent
             /\ delivered' = done.delivered
             /\ gap' = IF e.effect.type = "SendMidiMessage" /\ io_ok THEN {} ELSE seen
             /\ last' = Last(a, state, e.effect, io_ok,
                             IF done.ok THEN "" ELSE "effect_error", seen)

\* what an inbound frame is with respect to the latest frame written
Observed(msg) ==
  IF lastSent # <<>> /\ is_response_to_message(lastSent, msg)
  THEN {"answer"} ELSE {"other_frame"}

\* MidiDriver::send: the submission goes onto the command channel; once
\* run() has returned the channel is closed and send returns DeviceSendError
Caller_Send ==
  /\ nextId <= MaxSubs
  /\ \E c \in Commands :
       IF running
       THEN commands' = Append(commands, Sub(nextId, c)) /\ refused' = refused
       ELSE commands' = commands /\ refused' = refused \cup {nextId}
  /\ nextId' = nextId + 1
  /\ UNCHANGED <<state, running, receive_timeout, retry_timeout, incoming_messages,
                 done_signal, wire, lastSent, delivered, last, gap>>
  /\ UNCHANGED <<smVars, cxVars>>

\* MidiDriver::done
Caller_Done ==
  /\ running /\ ~done_signal
  /\ done_signal' = TRUE
  /\ UNCHANGED <<state, running, receive_timeout, retry_timeout, commands,
                 incoming_messages, wire, lastSent, nextId,
                 delivered, refused, last, gap>>
  /\ UNCHANGED <<smVars, cxVars>>

\* The device replies to the oldest frame it has not replied to yet.  The
\* loop takes one frame per iteration and never looks at what is behind it,
\* so the next frame is put on the channel once the loop has taken the
\* previous one.
Device_Reply ==
  /\ running
  /\ wire # <<>>
  /\ incoming_messages = <<>>
  /\ \E msg \in DeviceReplies(Head(wire)) :
       incoming_messages' = Append(incoming_messages, msg)
  /\ wire' = Tail(wire)
  /\ UNCHANGED <<state, running, receive_timeout, retry_timeout, commands,
                 done_signal, lastSent, nextId, delivered, refused, last, gap>>
  /\ UNCHANGED <<smVars, cxVars>>

\* the device sends a frame nobody asked for
Device_Unsolicited ==
  /\ running
  /\ incoming_messages = <<>>
  /\ \E msg \in UnsolicitedFrames :
       incoming_messages' = Append(incoming_messages, msg)
  /\ UNCHANGED <<state, running, receive_timeout, retry_timeout, commands,
                 done_signal, wire, lastSent, nextId, delivered, refused,
                 last, gap>>
  /\ UNCHANGED <<smVars, cxVars>>

\* select: one of the two timers has elapsed.  retry_timeout is only armed
\* on entering WaitingToRetry, which State::next of driver.rs never returns.
Run_Timer ==
  /\ running
  /\ \E t \in {"receive", "retry"} :
       IF t = "receive"
       THEN receive_timeout /\ Iterate(ResponseTimedOut, FALSE, retry_timeout, {"timer"})
       ELSE retry_timeout /\ Iterate(ReadyToRetry, receive_timeout, FALSE, {"timer"})
  /\ UNCHANGED <<commands, incoming_messages, done_signal, nextId, refused>>
  /\ UNCHANGED <<smVars, cxVars>>

\* the incoming-message branch of select without `self.receive_timeout = None`
Run_Message_keeping_timer ==
  /\ running
  /\ incoming_messages # <<>>
  /\ incoming_messages' = Tail(incoming_messages)
  /\ Iterate(MessageReceived(Head(incoming_messages)), receive_timeout, retry_timeout,
             Observed(Head(incoming_messages)))
  /\ UNCHANGED <<commands, done_signal, nextId, refused>>
  /\ UNCHANGED <<smVars, cxVars>>

\* select: a frame has arrived on incoming_messages
Run_Message ==
  /\ running
  /\ incoming_messages # <<>>
  /\ incoming_messages' = Tail(incoming_messages)
  /\ Iterate(MessageReceived(Head(incoming_messages)), FALSE, retry_timeout,
             Observed(Head(incoming_messages)))
  /\ UNCHANGED <<commands, done_signal, nextId, refused>>
  /\ UNCHANGED <<smVars, cxVars>>

\* select: a submission has arrived on the command channel
Run_Command ==
  /\ running
  /\ commands # <<>>
  /\ commands' = Tail(commands)
  /\ Iterate(SubmitCommand(Head(commands)), receive_timeout, retry_timeout, {})
  /\ UNCHANGED <<incoming_messages, done_signal, nextId, refused>>
  /\ UNCHANGED <<smVars, cxVars>>

\* select: the done signal has arrived; run() returns
Run_Done ==
  /\ running
  /\ done_signal
  /\ running' = FALSE
  /\ done_signal' = FALSE
  /\ last' = Last(NoAction, state, NoEffect, TRUE, "done", gap)
  /\ UNCHANGED <<state, receive_timeout, retry_timeout, commands,
                 incoming_messages, wire, lastSent, nextId,
                 delivered, refused, gap>>
  /\ UNCHANGED <<smVars, cxVars>>

----------------------------------------------------------------------------
\* The state machine of driver/state.rs, driven one action at a time the way
\* MidiApp::update and the tests of driver/mod.rs drive it

\* every status byte of ResponseStatusCode, and one outside it
StatusBytes == {NackByte, AckByte, BusyByte, ErrorByte, StateByte, 9}

\* the frames fed to the state machine: the replies to each command
SmFrames == UNION {Replies(to_sysex_message(c), StatusBytes) : c \in Commands}

\* one call of handle_driver_action; where next draws no Uuid the result
\* is the same for every tid
SmHandle(a) ==
  \E r \in {handle_driver_action(sm, a, tid) : tid \in 1..MaxUuid} :
    /\ sm' = r.state
    /\ smFrom' = sm
    /\ smStep' = a
    /\ smEffects' = r.effects
    /\ smSent' = IF r.effects # <<>> /\ r.effects[1].type = "SendMidiMessage"
                 THEN r.effects[1].sub ELSE smSent

\* Event::CommandSubmission
SM_SubmitCommand ==
  /\ smNextId <= MaxSmSubs
  /\ \E c \in Commands : SmHandle(SubmitCommand(Sub(smNextId, c)))
  /\ smNextId' = smNextId + 1
  /\ UNCHANGED <<rtVars, cxVars>>

\* the shell reports the frame of the latest SendMidiMessage as written
SM_MessageSent ==
  /\ smSent # NoSub
  /\ SmHandle(MessageSent(smSent))
  /\ UNCHANGED smNextId
  /\ UNCHANGED <<rtVars, cxVars>>

\* Event::SysexReceived
SM_MessageReceived ==
  /\ \E msg \in SmFrames : SmHandle(MessageReceived(msg))
  /\ UNCHANGED smNextId
  /\ UNCHANGED <<rtVars, cxVars>>

\* Event::TimeoutElapsed with the receive timeout id
SM_ResponseTimedOut ==
  /\ SmHandle(ResponseTimedOut)
  /\ UNCHANGED smNextId
  /\ UNCHANGED <<rtVars, cxVars>>

\* Event::TimeoutElapsed with the retry timeout id
SM_ReadyToRetry ==
  /\ SmHandle(ReadyToRetry)
  /\ UNCHANGED smNextId
  /\ UNCHANGED <<rtVars, cxVars>>

\* Action::ResponseDispatched, Action::DeviceBusy or Action::QueueEmpty
\* dispatched to the state machine
SM_Dispatch ==
  /\ \E a \in {ResponseDispatched, DeviceBusy, QueueEmpty} : SmHandle(a)
  /\ UNCHANGED smNextId
  /\ UNCHANGED <<rtVars, cxVars>>

----------------------------------------------------------------------------
\* Text, as the preset file holds it.  A string of digits is the sequence of
\* its digits, most significant first; a digit is its value (a..f are
\* 10..15).

None == <<>>
Some(x) == <<x>>

\* u8::to_string, u16::to_string
RECURSIVE to_string(_)
to_string(n) == IF n < 10 THEN <<n>> ELSE Append(to_string(n \div 10), n % 10)

\* the value of a string of digits in the radix, without a bound
RECURSIVE digits_value(_, _)
digits_value(s, radix) ==
  IF s = <<>> THEN 0
  ELSE digits_value(SubSeq(s, 1, Len(s) - 1), radix) * radix + s[Len(s)]

\* u8::from_str_radix, u16::from_str_radix, u32::from_str_radix: an error
\* for the empty string, a digit outside the radix or a value above max
from_str_radix(s, radix, max) ==
  IF s = <<>> \/ (\E i \in DOMAIN s : s[i] >= radix) THEN Err(<<"ParseIntError">>)
  ELSE IF digits_value(s, radix) > max THEN Err(<<"ParseIntError">>)
  ELSE Ok(digits_value(s, radix))

\* for u32 and i64 the bound of the parse is the largest integer of the
\* model: the texts parsed as u32 or i64 have at most six digits
WideMax == 2 ^ 30 + (2 ^ 30 - 1)

unwrap_or(res, default_val) == IF res.ok THEN res.v ELSE default_val

----------------------------------------------------------------------------
\* midi/constants.rs: colours, key functions, key locations

RGBColor(r, g, b) == <<r, g, b>>

\* RGBColor::to_hex_string: two lower-case hex digits per component
to_hex_string(color) ==
  <<color[1] \div 16, color[1] % 16, color[2] \div 16, color[2] % 16,
    color[3] \div 16, color[3] % 16>>

\* impl From<u32> for RGBColor
RGBColor_from(val) ==
  RGBColor(Shr(val, 16) % 256, Shr(val, 8) % 256, val % 256)

\* LumatoneKeyFunction
NoteOnOff(channel, note_num) ==
  [type |-> "NoteOnOff", channel |-> channel, num |-> note_num,
   fader_up_is_null |-> FALSE]
ContinuousController(channel, cc_num, fader_up_is_null) ==
  [type |-> "ContinuousController", channel |-> channel, num |-> cc_num,
   fader_up_is_null |-> fader_up_is_null]
LumaTouch(channel, note_num, fader_up_is_null) ==
  [type |-> "LumaTouch", channel |-> channel, num |-> note_num,
   fader_up_is_null |-> fader_up_is_null]
Disabled ==
  [type |-> "Disabled", channel |-> 0, num |-> 0, fader_up_is_null |-> FALSE]

key_type_code(function) ==
  CASE function.type = "NoteOnOff" -> 1
    [] function.type = "ContinuousController" -> 2
    [] function.type = "LumaTouch" -> 3
    [] function.type = "Disabled" -> 4

note_or_cc_num(function) == IF function.type = "Disabled" THEN 0 ELSE function.num

midi_channel_byte(function) ==
  IF function.type = "Disabled" THEN 0 ELSE function.channel

\* LumatoneKeyLocation(board, key): boards Octave1..Octave5 are 1..5
LumatoneKeyLocation(board_index, key_index) == <<board_index, key_index>>
KeyLocations ==
  {LumatoneKeyLocation(b, k) : b \in 1..NUM_BOARDS, k \in 0..MAX_KEY_INDEX}

KeyDefinition(function, color) == [function |-> function, color |-> color]

----------------------------------------------------------------------------
\* keymap/src/tables.rs.  The text of a table is an optional prefix followed
\* by the numbers, separated by blanks: [prefix, tokens].

ConfigTableDefinition(table, edit_strategy) ==
  [table |-> table, edit_strategy |-> edit_strategy]

ConfigTableDefinition_to_string(def) ==
  [prefix |-> CASE def.edit_strategy = "LinearSegments" -> "LINEAR"
                [] def.edit_strategy = "QuadraticCurves" -> "Quadratic"
                [] OTHER -> "",
   tokens |-> [i \in 1..Len(def.table) |-> to_string(def.table[i])]]

\* the numbers of a table text, or the first error; the texts of the model
\* never have more than len tokens
parse_tokens(s, len, max) ==
  IF Len(s.tokens) < len THEN Err(<<"InvalidTableDefinition", "too short">>)
  ELSE IF \E i \in DOMAIN s.tokens : ~from_str_radix(s.tokens[i], 10, max).ok
    THEN Err(<<"InvalidTableDefinition", "unable to parse int">>)
  ELSE Ok([i \in 1..len |-> from_str_radix(s.tokens[i], 10, max).v])

ConfigTableDefinition_from_str(s) ==
  LET edit_strategy == CASE s.prefix = "LINEAR" -> "LinearSegments"
                         [] s.prefix = "Quadratic" -> "QuadraticCurves"
                         [] OTHER -> "FreeDrawing"
      table == parse_tokens(s, TableLen, 255)
  IN  IF table.ok THEN Ok(ConfigTableDefinition(table.v, edit_strategy)) ELSE table

parse_velocity_intervals(s) == parse_tokens(s, IntervalLen, 65535)

velocity_intervals_to_string(table) ==
  [prefix |-> "", tokens |-> [i \in 1..Len(table) |-> to_string(table[i])]]

ConfigurationTables(on_off, fader, aftertouch, lumatouch, intervals) ==
  [on_off_velocity |-> on_off, fader_velocity |-> fader,
   aftertouch_velocity |-> aftertouch, lumatouch_velocity |-> lumatouch,
   velocity_intervals |-> intervals]

ConfigurationTables_default == ConfigurationTables(None, None, None, None, None)

----------------------------------------------------------------------------
\* keymap/src/ltn.rs.  An Ini maps section names to properties, and
\* properties map keys to texts.  The general section is <<"General">>, the
\* section [BoardN] is <<"Board", N>>; the key Key_N is <<"Key_", N>>.

GeneralOptions(after_touch, light, invert_foot, invert_sustain, sensitivity, tables) ==
  [after_touch_active |-> after_touch, light_on_key_strokes |-> light,
   invert_foot_controller |-> invert_foot, invert_sustain |-> invert_sustain,
   expression_controller_sensitivity |-> sensitivity, config_tables |-> tables]

GeneralOptions_default ==
  GeneralOptions(FALSE, FALSE, FALSE, FALSE, 0, ConfigurationTables_default)

LumatoneKeyMap(keys, general) == [keys |-> keys, general |-> general]

\* SectionSetter::set
Set(props, key, value) ==
  [k \in DOMAIN props \cup {key} |-> IF k = key THEN value ELSE props[k]]
SetIfSome(props, key, option) ==
  IF option = None THEN props ELSE Set(props, key, option[1])

bool_str(b) == to_string(IF b THEN 1 ELSE 0)

\* bool_val: i64::from_str_radix(s, 10).unwrap_or(0) != 0
bool_val(s) == unwrap_or(from_str_radix(s, 10, WideMax), 0) # 0

get_u8_or_default_from_ini_section(section, key, default_val) ==
  IF key \in DOMAIN section
  THEN unwrap_or(from_str_radix(section[key], 10, 255), default_val)
  ELSE default_val

config_table_from_ini_section(section, key) ==
  IF key \in DOMAIN section
  THEN LET def == ConfigTableDefinition_from_str(section[key])
       IN  IF def.ok THEN Ok(Some(def.v)) ELSE def
  ELSE Ok(None)

\* GeneralOptions::from_ini_section; the texts of the model hold a valid
\* number under ExprCtrlSensivity, so that the expect does not panic
from_ini_section(props) ==
  LET on_off_velocity == config_table_from_ini_section(props, <<"NoteOnOffVelocityCurveTbl">>)
      fader_velocity == config_table_from_ini_section(props, <<"FaderConfig">>)
      aftertouch_velocity == config_table_from_ini_section(props, <<"afterTouchConfig">>)
      lumatouch_velocity == config_table_from_ini_section(props, <<"LumaTouchConfig">>)
      velocity_intervals ==
        IF <<"VelocityIntrvlTbl">> \in DOMAIN props
        THEN LET tb == parse_velocity_intervals(props[<<"VelocityIntrvlTbl">>])
             IN  IF tb.ok THEN Ok(Some(tb.v)) ELSE tb
        ELSE Ok(None)
      flag(key) == IF key \in DOMAIN props THEN bool_val(props[key]) ELSE FALSE
  IN  CASE ~on_off_velocity.ok -> on_off_velocity
        [] ~fader_velocity.ok -> fader_velocity
        [] ~aftertouch_velocity.ok -> aftertouch_velocity
        [] ~lumatouch_velocity.ok -> lumatouch_velocity
        [] ~velocity_intervals.ok -> velocity_intervals
        [] OTHER ->
             Ok(GeneralOptions(
                  flag(<<"AfterTouchActive">>), flag(<<"LightOnKeyStrokes">>),
                  flag(<<"InvertFootController">>), flag(<<"InvertSustain">>),
                  IF <<"ExprCtrlSensivity">> \in DOMAIN props
                  THEN from_str_radix(props[<<"ExprCtrlSensivity">>], 10, 255).v
                  ELSE 0,
                  ConfigurationTables(on_off_velocity.v, fader_velocity.v,
                                      aftertouch_velocity.v, lumatouch_velocity.v,
                                      velocity_intervals.v)))

\* the general section of LumatoneKeyMap::to_ini
general_to_ini(general) ==
  LET tables == general.config_tables
      flags ==
        [k \in {<<"AfterTouchActive">>, <<"LightOnKeyStrokes">>,
                <<"InvertFootController">>, <<"InvertSustain">>,
                <<"ExprCtrlSensivity">>} |->
           CASE k = <<"AfterTouchActive">> -> bool_str(general.after_touch_active)
             [] k = <<"LightOnKeyStrokes">> -> bool_str(general.light_on_key_strokes)
             [] k = <<"InvertFootController">> -> bool_str(general.invert_foot_controller)
             [] k = <<"InvertSustain">> -> bool_str(general.invert_sustain)
             [] OTHER -> to_string(general.expression_controller_sensitivity)]
      text(option) ==
        IF option = None THEN None ELSE Some(ConfigTableDefinition_to_string(option[1]))
      p1 == SetIfSome(flags, <<"VelocityIntrvlTbl">>,
                      IF tables.velocity_intervals = None THEN None
                      ELSE Some(velocity_intervals_to_string(tables.velocity_intervals[1])))
      p2 == SetIfSome(p1, <<"NoteOnOffVelocityCrvTbl">>, text(tables.on_off_velocity))
      p3 == SetIfSome(p2, <<"FaderConfig">>, text(tables.fader_velocity))
      p4 == SetIfSome(p3, <<"afterTouchConfig">>, text(tables.aftertouch_velocity))
  IN  SetIfSome(p4, <<"LumaTouchConfig">>, text(tables.lumatouch_velocity))

\* a section that holds the keys that are set and no other
board_to_ini_set_keys_only(keys, b) ==
  LET set == {k \in 0..MAX_KEY_INDEX : LumatoneKeyLocation(b, k) \in DOMAIN keys}
      def(k) == keys[LumatoneKeyLocation(b, k)]
  IN  [key \in {<<n, k>> : n \in {"Key_", "Chan_", "Col_"}, k \in set} |->
         CASE key[1] = "Key_" -> to_string(note_or_cc_num(def(key[2]).function))
           [] key[1] = "Chan_" -> to_string(midi_channel_byte(def(key[2]).function))
           [] OTHER -> to_hex_string(def(key[2]).color)]

\* the section of board b of LumatoneKeyMap::to_ini: the keys that are set,
\* with KTyp_ unless the key type is 1, and every other key as disabled
board_to_ini(keys, b) ==
  LET set(k) == LumatoneKeyLocation(b, k) \in DOMAIN keys
      def(k) == keys[LumatoneKeyLocation(b, k)]
      names == {<<n, k>> : n \in {"Key_", "Chan_", "Col_"}, k \in 0..MAX_KEY_INDEX}
                 \cup {<<"KTyp_", k>> : k \in {i \in 0..MAX_KEY_INDEX :
                          ~set(i) \/ key_type_code(def(i).function) # 1}}
  IN  [key \in names |->
         LET k == key[2] IN
         IF set(k)
         THEN CASE key[1] = "Key_" -> to_string(note_or_cc_num(def(k).function))
                [] key[1] = "Chan_" -> to_string(midi_channel_byte(def(k).function))
                [] key[1] = "Col_" -> to_hex_string(def(k).color)
                [] OTHER -> to_string(key_type_code(def(k).function))
         ELSE CASE key[1] = "Key_" -> <<0>>
                [] key[1] = "Chan_" -> <<1>>
                [] key[1] = "Col_" -> <<0, 0, 0, 0, 0, 0>>
                [] OTHER -> <<4>>]

\* LumatoneKeyMap::to_ini
to_ini(keymap) ==
  [s \in {<<"General">>} \cup {<<"Board", b - 1>> : b \in 1..NUM_BOARDS} |->
     IF s = <<"General">> THEN general_to_ini(keymap.general)
     ELSE board_to_ini(keymap.keys, s[2] + 1)]

\* the key definition from_ini_str reads for key k of a board section
key_from_ini(section, k) ==
  LET key_type_code0 == get_u8_or_default_from_ini_section(section, <<"KTyp_", k>>, 1)
      num == get_u8_or_default_from_ini_section(section, <<"Key_", k>>, 0)
      chan == get_u8_or_default_from_ini_section(section, <<"Chan_", k>>, 1)
      color_str == IF <<"Col_", k>> \in DOMAIN section THEN section[<<"Col_", k>>]
                   ELSE <<0, 0, 0, 0, 0, 0>>
      color_u32 == from_str_radix(color_str, 16, WideMax)
      channel == IF chan \in 1..16 THEN chan ELSE 1
      function == CASE key_type_code0 = 1 -> NoteOnOff(channel, num)
                    [] key_type_code0 = 2 -> ContinuousController(channel, num, FALSE)
                    [] key_type_code0 = 3 -> LumaTouch(channel, num, FALSE)
                    [] OTHER -> Disabled
  IN  IF color_u32.ok THEN Ok(KeyDefinition(function, RGBColor_from(color_u32.v)))
      ELSE Err(<<"ValueParseError">>)

\* LumatoneKeyMap::from_ini_str, from the Ini that Ini::load_from_str
\* returns: the general options are those of the last board section that
\* from_ini_section accepts, the keys those of every board section
from_ini_str(ini) ==
  LET present == {b \in 1..NUM_BOARDS : <<"Board", b - 1>> \in DOMAIN ini}
      section(b) == ini[<<"Board", b - 1>>]
      accepted == {b \in present : from_ini_section(section(b)).ok}
      last_accepted == CHOOSE b \in accepted : \A c \in accepted : c <= b
      general == IF accepted = {} THEN GeneralOptions_default
                 ELSE from_ini_section(section(last_accepted)).v
      locations == {LumatoneKeyLocation(b, k) : b \in present, k \in 0..MAX_KEY_INDEX}
  IN  IF \E loc \in locations : ~key_from_ini(section(loc[1]), loc[2]).ok
      THEN Err(<<"ValueParseError">>)
      ELSE Ok(LumatoneKeyMap(
                [loc \in locations |-> key_from_ini(section(loc[1]), loc[2]).v],
                general))

\* LumatoneKeyMap::to_midi_commands; order is the order in which
\* self.keys.iter() visits the keys of the HashMap
to_midi_commands(keymap, order) ==
  LET general == keymap.general
      tables == general.config_tables
      curve(name, option) ==
        IF option = None THEN <<>> ELSE <<<<name, option[1].table>>>>
  IN  << <<"SetAftertouchEnabled", general.after_touch_active>>,
         <<"SetLightOnKeystrokes", general.light_on_key_strokes>>,
         <<"InvertFootController", general.invert_foot_controller>>,
         <<"InvertSustainPedal", general.invert_sustain>>,
         <<"SetExpressionPedalSensitivity", general.expression_controller_sensitivity>> >>
        \o curve("SetVelocityConfig", tables.on_off_velocity)
        \o curve("SetAftertouchConfig", tables.aftertouch_velocity)
        \o curve("SetFaderConfig", tables.fader_velocity)
        \o curve("SetLumatouchConfig", tables.lumatouch_velocity)
        \o (IF tables.velocity_intervals = None THEN <<>>
            ELSE <<<<"SetVelocityIntervals", tables.velocity_intervals[1]>>>>)
        \o [i \in 1..(2 * Len(order)) |->
              LET location == order[(i + 1) \div 2] IN
              IF i % 2 = 1
              THEN <<"SetKeyFunction", location, keymap.keys[location].function>>
              ELSE <<"SetKeyColor", location, keymap.keys[location].color>>]

----------------------------------------------------------------------------
\* The pure functions of sysex.rs, commands.rs and responses.rs, each
\* applied to an input drawn in the initial state

\* inbound byte sequences: every sequence of at most MaxShortLen bytes over
\* the two markers and a byte that is neither, and a Pong cut off at every
\* length, as it is and closed with F7
InboundFrames ==
  LET pong == Frame(Server, LumaPing, AckByte, <<TEST_ECHO, 0, 0, 1>>)
      prefixes == {SubSeq(pong, 1, n) : n \in 0..Len(pong)}
  IN  UNION {[1..n -> {SYSEX_START, SYSEX_END, MANUFACTURER_ID[2]}] : n \in 0..MaxShortLen}
        \cup prefixes \cup {p \o <<SYSEX_END>> : p \in prefixes}

\* the outgoing frames are those of the commands, and one that ends with
\* the board index
FrameInputs ==
  {[kind |-> "frame", outgoing |-> o, msg |-> m] :
     o \in {to_sysex_message(c) : c \in Commands}
             \cup {<<SYSEX_START>> \o MANUFACTURER_ID \o <<Server, SYSEX_END>>},
     m \in InboundFrames}

\* ping values: around each 7-bit boundary of the encoding, up to 28 bits
PingInputs ==
  {[kind |-> "ping", value |-> v] :
     v \in {0, 1, 127, 128, 2 ^ 14 - 1, 2 ^ 14, 2 ^ 21 - 1, 2 ^ 21, 2 ^ 21 + 5,
            2 ^ 28 - 1}}

\* the data bytes of a command: every sequence of at most MaxDataLen bytes
\* over two values
DataInputs ==
  {[kind |-> "data", board |-> Server, cmd |-> c, data |-> d] :
     c \in {SaveProgram, LumaPing},
     d \in UNION {[1..n -> {1, TEST_ECHO}] : n \in 0..MaxDataLen}}

\* The four curves (the command that sets one, the command id that reads it
\* back and the Response that carries it) with curves of TableLen bytes
\* below 128: flat ones, the linear one, and steps from 0 to 127 at each of
\* the first MaxCurveStep places
CurveInputs ==
  LET curves ==
        {[set |-> "SetVelocityConfig", get |-> GetVelocityConfig,
          response |-> "OnOffVelocityConfig"],
         [set |-> "SetFaderConfig", get |-> GetFaderConfig, response |-> "FaderConfig"],
         [set |-> "SetAftertouchConfig", get |-> GetAftertouchConfig,
          response |-> "AftertouchConfig"],
         [set |-> "SetLumatouchConfig", get |-> GetLumatouchConfig,
          response |-> "LumatouchConfig"]}
      tables ==
        {[i \in 1..TableLen |-> c] : c \in {0, 127}}
          \cup {[i \in 1..TableLen |-> i - 1]}
          \cup {[i \in 1..TableLen |-> IF i <= k THEN 0 ELSE 127] : k \in 1..MaxCurveStep}
  IN  {[kind |-> "curve", set |-> c.set, get |-> c.get, response |-> c.response,
        table |-> tb] : c \in curves, tb \in tables}

\* velocity interval tables of IntervalLen values below 4096: multiples of
\* a step, taken modulo 4096
IntervalInputs ==
  {[kind |-> "intervals", table |-> [i \in 1..IntervalLen |-> (i * k) % 4096]] :
     k \in {0, 1, 63, 64, 65, 4095}}

\* the presets set_key and set_global_options build: at most MaxSetKeys of
\* three locations are set, each to one of four definitions, and the
\* general options are the default ones, flags and sensitivity, or tables
PresetInputs ==
  LET locations ==
        {LumatoneKeyLocation(1, 0), LumatoneKeyLocation(2, 0),
         LumatoneKeyLocation(NUM_BOARDS, MAX_KEY_INDEX)}
      definitions ==
        {KeyDefinition(NoteOnOff(1, 60), RGBColor(255, 0, 0)),
         KeyDefinition(LumaTouch(2, 70, FALSE), RGBColor(0, 255, 0)),
         KeyDefinition(ContinuousController(16, 7, TRUE), RGBColor(0, 0, 255)),
         KeyDefinition(Disabled, RGBColor(10, 11, 12))}
      linear == [i \in 1..TableLen |-> i - 1]
      flat == [i \in 1..TableLen |-> 64]
      options ==
        {GeneralOptions_default,
         GeneralOptions(TRUE, TRUE, TRUE, TRUE, 100, ConfigurationTables_default),
         GeneralOptions(FALSE, FALSE, FALSE, FALSE, 0,
           ConfigurationTables(None, Some(ConfigTableDefinition(flat, "FreeDrawing")),
                               None, None, Some([i \in 1..IntervalLen |-> 32 * i]))),
         GeneralOptions(TRUE, FALSE, FALSE, FALSE, 0,
           ConfigurationTables(Some(ConfigTableDefinition(linear, "LinearSegments")),
                               Some(ConfigTableDefinition(flat, "FreeDrawing")),
                               Some(ConfigTableDefinition(linear, "QuadraticCurves")),
                               Some(ConfigTableDefinition(flat, "LinearSegments")),
                               None))}
  IN  {[kind |-> "preset", keymap |-> LumatoneKeyMap(keys, general)] :
         keys \in UNION {[d -> definitions] :
                           d \in {s \in SUBSET locations : Cardinality(s) <= MaxSetKeys}},
         general \in options}

\* preset files with entries for key 0 only: Key_0=60, Chan_0=1 and a
\* colour, with or without KTyp_0, in the section of the first board, of
\* the last board or of both
FileInputs ==
  LET entries ==
        {[key \in {<<"Key_", 0>>, <<"Chan_", 0>>, <<"Col_", 0>>} |->
            CASE key[1] = "Key_" -> <<6, 0>>
              [] key[1] = "Chan_" -> <<1>>
              [] OTHER -> col] : col \in {<<15, 15, 0, 0, 0, 0>>, <<0, 0, 8, 0, 0, 0>>}}
      typed == {Set(e, <<"KTyp_", 0>>, <<ktyp>>) : e \in entries, ktyp \in 1..MaxKTyp}
      sections == {{<<"Board", 0>>}, {<<"Board", NUM_BOARDS - 1>>},
                   {<<"Board", 0>>, <<"Board", NUM_BOARDS - 1>>}}
  IN  {[kind |-> "file", ini |-> ini] :
         ini \in UNION {[s -> entries \cup typed] : s \in sections}}

\* The states and actions State::next and State::enter of driver/state.rs
\* are applied to, built the way the tests of driver/mod.rs build them:
\* every state whose queue holds at most MaxQueued of MaxQueued + 1
\* submissions, with another submission in flight or to be retried and an
\* Ack or a Busy reply as the response, and every action, with any of the
\* submissions or replies.
TransitionInputs ==
  LET subs == {Sub(i, <<"SaveProgram", 3>>) : i \in 1..(MaxQueued + 1)}
      queues == {q \in UNION {[1..n -> subs] : n \in 0..MaxQueued} :
                   \A i, j \in DOMAIN q : i # j => q[i] # q[j]}
      others(q) == {s \in subs : \A i \in DOMAIN q : q[i] # s}
      msgs == {Frame(Server, SaveProgram, status, <<3>>) : status \in {AckByte, BusyByte}}
      states ==
        {Idle, Failed}
          \cup {ProcessingQueue(q) : q \in queues}
          \cup UNION {{AwaitingResponse(q, s, 1) : s \in others(q)} : q \in queues}
          \cup UNION {{WaitingToRetry(q, s, 1) : s \in others(q)} : q \in queues}
          \cup UNION {{ProcessingResponse(q, s, m) : s \in others(q), m \in msgs} :
                        q \in queues}
      actions ==
        {SubmitCommand(s) : s \in subs} \cup {MessageSent(s) : s \in subs}
          \cup {MessageReceived(m) : m \in msgs}
          \cup {DeviceBusy, ResponseDispatched, ResponseTimedOut, ReadyToRetry,
                 QueueEmpty}
  IN  {[kind |-> "transition", state |-> s, action |-> a] : s \in states, a \in actions}

\* midi/src/app.rs: Model and Event.  The timeout ids are the ids the timeout
\* capability returned for the running timers, device the connected device.
Model(device, driver_state, receive_timeout_id, retry_timeout_id) ==
  [device |-> device, driver_state |-> driver_state,
   receive_timeout_id |-> receive_timeout_id, retry_timeout_id |-> retry_timeout_id]

\* a stored timeout id taken to match whatever id has elapsed
is_timeout_of_any(stored, id) == stored # None

\* midi/src/app.rs: the test of update for an elapsed timeout,
\* `model.retry_timeout_id == Some(id)` and the same for receive_timeout_id
is_timeout(stored, id) == stored = Some(id)

\* midi/src/app.rs: MidiApp::update.  tid is the Uuid State::next draws and
\* id the TimeoutId the timeout capability returns when a timer is set.
\* The result is the model it leaves and the driver effects it handled, in
\* order: SendMidiMessage is the send of the sysex capability,
\* NotifyMessageResponse the send_command_result of the notify capability,
\* a timeout effect the set of the timeout capability, whose id is stored.
update(event, model, tid, id) ==
  LET has(r, type) == \E i \in DOMAIN r.effects : r.effects[i].type = type
      stored(m, r) ==
        [model |->
           [m EXCEPT !.driver_state = r.state,
                     !.receive_timeout_id =
                       IF has(r, "StartReceiveTimeout") THEN Some(id) ELSE @,
                     !.retry_timeout_id =
                       IF has(r, "StartRetryTimeout") THEN Some(id) ELSE @],
         effects |-> r.effects]
      \* handle_driver_action, for the events that come to a driver action
      drive(m, action) ==
        IF action.type = "None" THEN [model |-> m, effects |-> <<>>]
        ELSE stored(m, handle_driver_action(m.driver_state, action, tid))
      retry ==
        event.type = "TimeoutElapsed" /\ is_timeout(model.retry_timeout_id, event.id)
      receive ==
        event.type = "TimeoutElapsed" /\ ~retry
          /\ is_timeout(model.receive_timeout_id, event.id)
  IN  CASE event.type = "DeviceConnected" ->
             [model |-> [model EXCEPT !.device = Some(event.device)], effects |-> <<>>]
        [] event.type = "DeviceDisconnected" ->
             [model |-> Model(None, Idle, None, None), effects |-> <<>>]
        [] OTHER ->
             drive([model EXCEPT !.retry_timeout_id = IF retry THEN None ELSE @,
                                 !.receive_timeout_id = IF receive THEN None ELSE @],
                   CASE event.type = "CommandSubmission" -> SubmitCommand(event.sub)
                     [] event.type = "SysexReceived" -> MessageReceived(event.msg)
                     [] retry -> ReadyToRetry
                     [] receive -> ResponseTimedOut
                     [] OTHER -> NoAction)

\* Models and events for MidiApp::update: Model::default and models with a
\* connected device, a driver state with at most one queued submission and
\* any stored timeout ids, with each event: a submission, a reply, an
\* elapsed timeout with any id, and the device and send notifications.
AppInputs ==
  LET states == {x.state : x \in {y \in TransitionInputs : Len(y.state.send_queue) <= 1}}
      actions == {x.action : x \in TransitionInputs}
      ids == {None} \cup {Some(i) : i \in 1..MaxUuid}
      models ==
        {Model(None, Idle, None, None)}
          \cup {Model(Some("lumatone"), s, p[1], p[2]) :
                  s \in states, p \in {x \in ids \X ids : x[1] = None \/ x[1] # x[2]}}
      events ==
        {[type |-> "CommandSubmission", sub |-> a.sub] :
           a \in {b \in actions : b.type = "SubmitCommand"}}
          \cup {[type |-> "SysexReceived", msg |-> a.msg] :
                  a \in {b \in actions : b.type = "MessageReceived"}}
          \cup {[type |-> "TimeoutElapsed", id |-> i] : i \in 1..MaxUuid}
          \cup {[type |-> "DeviceConnected", device |-> "lumatone"],
                [type |-> "DeviceDisconnected"], [type |-> "SysexSent"]}
  IN  {[kind |-> "app", model |-> m, event |-> e] : m \in models, e \in events}

CodecInputs ==
  FrameInputs \cup PingInputs \cup DataInputs \cup CurveInputs \cup IntervalInputs
    \cup PresetInputs \cup FileInputs \cup TransitionInputs \cup AppInputs

\* one call: op is the function, out what it left
Applied(op, out) ==
  /\ cxOp' = op
  /\ cxOut' = out
  /\ UNCHANGED <<cxIn, rtVars, smVars>>

\* the result of a helper that strips the markers first and then indexes
\* behind a length check
AfterStrip(msg, v) == IF strip_panics(msg) THEN Panicked ELSE Returned(v)

CX_strip_sysex_markers ==
  /\ cxIn.kind = "frame"
  /\ Applied("strip_sysex_markers", AfterStrip(cxIn.msg, strip_sysex_markers(cxIn.msg)))

CX_is_lumatone_message ==
  /\ cxIn.kind = "frame"
  /\ Applied("is_lumatone_message", AfterStrip(cxIn.msg, is_lumatone_message(cxIn.msg)))

CX_message_command_id ==
  /\ cxIn.kind = "frame"
  /\ Applied("message_command_id", AfterStrip(cxIn.msg, message_command_id(cxIn.msg)))

CX_message_answer_code ==
  /\ cxIn.kind = "frame"
  /\ Applied("message_answer_code", AfterStrip(cxIn.msg, message_answer_code(cxIn.msg)))

CX_message_payload ==
  /\ cxIn.kind = "frame"
  /\ Applied("message_payload", AfterStrip(cxIn.msg, message_payload(cxIn.msg)))

CX_is_response_to_message ==
  /\ cxIn.kind = "frame"
  /\ Applied("is_response_to_message",
             IF is_response_to_message_panics(cxIn.outgoing, cxIn.msg) THEN Panicked
             ELSE Returned(is_response_to_message(cxIn.outgoing, cxIn.msg)))

\* State::enter of driver.rs in ProcessingResponse, with the inbound frame
\* as response_msg and the command of the outgoing frame in flight: it
\* calls is_response_to_message before anything else
CX_enter ==
  /\ cxIn.kind = "frame"
  /\ \E c \in Commands :
       /\ to_sysex_message(c) = cxIn.outgoing
       /\ Applied("enter",
                  IF is_response_to_message_panics(cxIn.outgoing, cxIn.msg) THEN Panicked
                  ELSE Returned(driver_enter(ProcessingResponse(<<>>, Sub(1, c), cxIn.msg))))

\* A command frame has its data behind the command id; a reply has the
\* status byte there, and behind it the data.  The reply the device gives
\* with command id cmd and the data of the outgoing frame:
EchoReply(cmd, outgoing) == Frame(Server, cmd, AckByte, EchoBody(outgoing))

\* decode_ping applied to the Ack the device gives to the frame encode_ping
\* built: the status byte, then the echo flag and the three value bytes
CX_decode_ping ==
  /\ cxIn.kind = "ping"
  /\ Applied("decode_ping",
             Returned(decode_ping(EchoReply(LumaPing, encode_ping(cxIn.value)))))

\* Response::from_sysex_message applied to the reply to Get...Config that
\* carries the table the frame of Set...Config carried
CX_unpack_sysex_config_table ==
  /\ cxIn.kind = "curve"
  /\ Applied("unpack_sysex_config_table",
             Returned(from_sysex_message(
               EchoReply(cxIn.get, to_sysex_message(<<cxIn.set, cxIn.table>>)))))

\* Response::from_sysex_message applied to the reply to GetVelocityIntervals
\* that carries the bytes the frame of SetVelocityIntervals carried
CX_unpack_velocity_intervals ==
  /\ cxIn.kind = "intervals"
  /\ Applied("unpack_velocity_intervals",
             Returned(from_sysex_message(
               EchoReply(GetVelocityIntervals,
                         to_sysex_message(<<"SetVelocityIntervals", cxIn.table>>)))))

CX_create_sysex ==
  /\ cxIn.kind = "data"
  /\ Applied("create_sysex", Returned(create_sysex(cxIn.board, cxIn.cmd, cxIn.data)))

\* LumatoneKeyMap::from_ini_str applied to the Ini of to_ini
CX_from_ini_str ==
  /\ cxIn.kind = "preset"
  /\ Applied("from_ini_str", Returned(from_ini_str(to_ini(cxIn.keymap))))

\* State::next of driver/state.rs; tid is the Uuid it draws
CX_state_next ==
  /\ cxIn.kind = "transition"
  /\ \E tid \in 1..MaxUuid :
       Applied("state_next", Returned(state_next(cxIn.state, cxIn.action, tid)))

\* State::enter of driver/state.rs: the state it leaves and the effect
CX_state_enter ==
  /\ cxIn.kind = "transition"
  /\ Applied("state_enter", Returned(state_enter(cxIn.state)))

\* MidiApp::update of midi/src/app.rs; tid is the Uuid State::next draws and
\* id the TimeoutId a set of the timeout capability returns
CX_update ==
  /\ cxIn.kind = "app"
  /\ \E tid \in 1..MaxUuid, id \in 1..MaxUuid :
       Applied("update", Returned(update(cxIn.event, cxIn.model, tid, id)))

\* LumatoneKeyMap::from_ini_str of the text of a preset file
CX_from_ini_file ==
  /\ cxIn.kind = "file"
  /\ Applied("from_ini_file", Returned(from_ini_str(cxIn.ini)))

\* LumatoneKeyMap::to_ini of a preset
CX_to_ini ==
  /\ cxIn.kind = "preset"
  /\ Applied("to_ini", Returned(to_ini(cxIn.keymap)))

\* the orders in which a HashMap may visit the given keys
IterationOrders(keys) ==
  {order \in [1..Cardinality(keys) -> keys] :
     \A loc \in keys : \E i \in DOMAIN order : order[i] = loc}

\* LumatoneKeyMap::to_midi_commands of a preset with these keys and options.
\* What is kept besides the list is the list the call before this one
\* returned for the same preset, if there was one.
CX_to_midi_commands ==
  /\ cxIn.kind = "preset"
  /\ \E order \in IterationOrders(DOMAIN cxIn.keymap.keys) :
       Applied("to_midi_commands",
               Returned([commands |-> to_midi_commands(cxIn.keymap, order),
                         previous |-> IF cxOp = "to_midi_commands"
                                      THEN Some(cxOut.v.commands) ELSE None]))

InitRt ==
  /\ state = Idle
  /\ running = TRUE
  /\ receive_timeout = FALSE
  /\ retry_timeout = FALSE
  /\ commands = <<>>
  /\ incoming_messages = <<>>
  /\ done_signal = FALSE
  /\ wire = <<>>
  /\ lastSent = <<>>
  /\ nextId = 1
  /\ delivered = <<>>
  /\ refused = {}
  /\ last = Last(NoAction, Idle, NoEffect, TRUE, "", {})
  /\ gap = {}

InitSm ==
  /\ sm = Idle
  /\ smFrom = Idle
  /\ smStep = NoAction
  /\ smEffects = <<>>
  /\ smSent = NoSub
  /\ smNextId = 1

Init ==
  /\ InitRt
  /\ InitSm
  /\ cxOp = "none"
  /\ cxIn = [kind |-> "none"]
  /\ cxOut = Returned(<<>>)

Next ==
  \/ Caller_Send
  \/ Caller_Done
  \/ Device_Reply
  \/ Device_Unsolicited
  \/ Run_Timer
  \/ Run_Message
  \/ Run_Command
  \/ Run_Done

Spec == Init /\ [][Next]_vars

SmNext ==
  \/ SM_SubmitCommand
  \/ SM_MessageSent
  \/ SM_MessageReceived
  \/ SM_ResponseTimedOut
  \/ SM_ReadyToRetry
  \/ SM_Dispatch

SpecSM == Init /\ [][SmNext]_vars

InitCodec ==
  /\ InitRt
  /\ InitSm
  /\ cxOp = "none"
  /\ cxIn \in CodecInputs
  /\ cxOut = Returned(<<>>)

CodecNext ==
  \/ CX_strip_sysex_markers
  \/ CX_is_lumatone_message
  \/ CX_message_command_id
  \/ CX_message_answer_code
  \/ CX_message_payload
  \/ CX_is_response_to_message
  \/ CX_enter
  \/ CX_decode_ping
  \/ CX_unpack_sysex_config_table
  \/ CX_unpack_velocity_intervals
  \/ CX_create_sysex
  \/ CX_from_ini_str
  \/ CX_from_ini_file
  \/ CX_to_ini
  \/ CX_to_midi_commands
  \/ CX_state_next
  \/ CX_state_enter
  \/ CX_update

SpecCodec == InitCodec /\ [][CodecNext]_vars

----------------------------------------------------------------------------
\* Properties of the tokio runtime (specification Spec)

\* the submissions a state holds: queued, in flight or waiting to be retried
Held(s) ==
  {s.send_queue[i] : i \in DOMAIN s.send_queue}
    \cup ({s.command_sent, s.to_retry} \ {NoSub})

\* the loop is running and nothing is on its way to it: both channels are
\* empty, the device has answered every frame written, no timer is armed and
\* no done signal is pending
Quiescent ==
  /\ running
  /\ commands = <<>>
  /\ incoming_messages = <<>>
  /\ wire = <<>>
  /\ ~receive_timeout
  /\ ~retry_timeout
  /\ ~done_signal

\* an error has been written to the responder of submission id
ErrorDelivered(id) ==
  \E i \in DOMAIN delivered : delivered[i].id = id /\ ~delivered[i].res.ok

\* What MidiDriver::send of an accepted submission comes to, for a caller
\* that awaits it.  A refused submission gives DeviceSendError.  Otherwise
\* response_rx.recv() gives the value written to the responder; while the
\* submission is on the command channel or in the state of the running
\* loop nothing has come yet (no value); once the submission has been
\* dropped, and its response_tx with it, recv() gives None and unwrap()
\* panics.
send_result(id) ==
  LET written == {i \in DOMAIN delivered : delivered[i].id = id}
      alive == /\ running
               /\ \/ \E s \in Held(state) : s.id = id
                  \/ \E i \in DOMAIN commands : commands[i].id = id
  IN  IF id \in refused THEN Returned(Some(Err(<<"DeviceSendError">>)))
      ELSE IF written # {}
        THEN Returned(Some(delivered[CHOOSE i \in written : TRUE].res))
      ELSE IF alive THEN Returned(None)
      ELSE Panicked

\* the latest iteration took a frame with the given status while a
\* submission was in flight
Received(status) ==
  /\ last.act = "MessageReceived"
  /\ last.from.kind = "AwaitingResponse"
  /\ message_answer_code(last.msg) = status

\* C1: responders are written in the order the submissions were enqueued on
\* the command channel (ids are given in that order): a later submission's
\* waiter is never notified before an earlier one's.
C1_FifoDelivery ==
  \A i, j \in DOMAIN delivered : i < j => delivered[i].id < delivered[j].id

\* C1: a waiter is notified after an earlier one, while a later submission
\* waits in the queue
C1_Witness ==
  /\ Len(delivered) >= 2
  /\ last.effect.type = "NotifyMessageResponse"
  /\ last.from.send_queue # <<>>

\* C2: a frame is written after an earlier one only if, since the earlier
\* write, the loop has taken a frame that answers it (same board and command
\* id) or a timer has fired.
C2_SendAfterAnswerOrTimer ==
  (last.effect.type = "SendMidiMessage" /\ last.io_ok /\ last.earlier # <<>>)
    => last.gap \cap {"answer", "timer"} # {}

\* C3: every accepted submission gets a terminal outcome: once the device
\* has answered every frame and nothing is pending for the loop, the driver
\* holds no submission any more.
C3_NoSubmissionLeftBehind == Quiescent => Held(state) = {}

\* C4: a Busy reply to the in-flight submission puts it into WaitingToRetry
\* with the retry timer armed, from where it is sent again.
C4_BusyLeadsToRetry ==
  Received("Busy") =>
    /\ state.kind = "WaitingToRetry"
    /\ state.to_retry = last.from.command_sent
    /\ retry_timeout

\* C5: when the response timeout fires for the in-flight submission, the
\* submission leaves the driver and an error is written to its responder.
C5_TimeoutErrorDelivered ==
  (last.act = "ResponseTimedOut" /\ last.from.kind = "AwaitingResponse") =>
    /\ last.from.command_sent \notin Held(state)
    /\ ErrorDelivered(last.from.command_sent.id)

\* C6: once run() has returned, every submission that was queued or in
\* flight at that moment has DriverShutdown on its responder.
C6_ShutdownErrorDelivered ==
  ~running =>
    \A s \in Held(last.from) :
      \E i \in DOMAIN delivered :
        delivered[i] = [id |-> s.id, res |-> Err(<<"DriverShutdown">>)]

\* C7: when LumatoneIO::send fails, the error is written to the responder
\* of the submission, the loop keeps running and the state is
\* ProcessingQueue.
C7_SendFailureSurvived ==
  (last.effect.type = "SendMidiMessage" /\ ~last.io_ok) =>
    /\ running
    /\ state.kind = "ProcessingQueue"
    /\ ErrorDelivered(last.effect.sub.id)

\* C10: after a reply with an unrecognised status byte the waiter is not
\* notified, the state is ProcessingQueue and the submissions queued behind
\* the dropped one are sent: none of them stays in the queue with nothing
\* pending for the loop.
C10_QueuedSentAfterUnknown ==
  (Received("Unknown") /\ Quiescent) =>
    /\ last.effect.type # "NotifyMessageResponse"
    /\ state.kind = "ProcessingQueue"
    /\ state.send_queue = <<>>

\* C11: a frame that fails is_lumatone_message and arrives while a
\* submission is in flight is not taken as its response: the submission
\* stays in flight, the queue is unchanged and nobody is notified.
C11_NonLumatoneFrameIgnored ==
  (/\ last.act = "MessageReceived"
   /\ ~is_lumatone_message(last.msg)
   /\ last.from.kind = "AwaitingResponse") =>
    /\ state.kind = "AwaitingResponse"
    /\ state.command_sent = last.from.command_sent
    /\ state.send_queue = last.from.send_queue
    /\ last.effect.type # "NotifyMessageResponse"

----------------------------------------------------------------------------
\* Properties of State::enter of driver/state.rs (specification SpecSM)

\* the status byte of a frame that starts with F0
StatusByte(msg) == msg[MSG_STATUS + 2]

\* the latest step fed a frame to AwaitingResponse, so that
\* ProcessingResponse was entered with it
EnteredProcessingResponse ==
  smStep.type = "MessageReceived" /\ smFrom.kind = "AwaitingResponse"

\* C8: entering ProcessingResponse with an Ack frame yields exactly
\* NotifyMessageResponse(in flight, decode result), an error of the decoder
\* included; with a Nack or Error frame it yields exactly
\* NotifyMessageResponse(in flight, Err(InvalidResponseMessage)).  Nothing
\* but the status byte selects between them: the frame need not match the
\* command in flight.
C8_NotifyByStatus ==
  EnteredProcessingResponse =>
    LET st == StatusByte(smStep.msg) IN
    /\ st = AckByte =>
         smEffects = <<NotifyMessageResponse(smFrom.command_sent,
                                             from_sysex_message(smStep.msg))>>
    /\ st \in {NackByte, ErrorByte} =>
         /\ Len(smEffects) = 1
         /\ smEffects[1].type = "NotifyMessageResponse"
         /\ smEffects[1].sub = smFrom.command_sent
         /\ ~smEffects[1].res.ok
         /\ smEffects[1].res.v[1] = "InvalidResponseMessage"

\* C8: an Ack frame whose body the decoder rejects, and which answers
\* another command than the one in flight, was entered with and the
\* decoder's error went to the waiter of the in-flight submission
C8_Witness ==
  /\ EnteredProcessingResponse
  /\ StatusByte(smStep.msg) = AckByte
  /\ ~is_response_to_message(to_sysex_message(smFrom.command_sent.command), smStep.msg)
  /\ smFrom.send_queue # <<>>
  /\ smEffects # <<>>
  /\ smEffects[1].type = "NotifyMessageResponse"
  /\ ~smEffects[1].res.ok

\* C9: entering ProcessingResponse with a Busy or State frame yields
\* DispatchAction(DeviceBusy), which leads to WaitingToRetry and its retry
\* timeout, and no NotifyMessageResponse; a NotifyMessageResponse only ever
\* comes from ProcessingResponse with a frame of another status, for the
\* submission in flight.
C9_BusyNotSurfaced ==
  /\ (EnteredProcessingResponse /\ StatusByte(smStep.msg) \in {BusyByte, StateByte}) =>
       /\ smEffects = <<DispatchAction(DeviceBusy), StartRetryTimeout>>
       /\ sm.kind = "WaitingToRetry"
       /\ sm.to_retry = smFrom.command_sent
  /\ \A i \in DOMAIN smEffects :
       smEffects[i].type = "NotifyMessageResponse" =>
         /\ sm.kind = "ProcessingResponse"
         /\ StatusByte(sm.response_msg) \notin {BusyByte, StateByte}
         /\ smEffects[i].sub = sm.command_sent

\* C9: a State frame was entered with while another submission was queued
C9_Witness ==
  /\ EnteredProcessingResponse
  /\ StatusByte(smStep.msg) = StateByte
  /\ smFrom.send_queue # <<>>
  /\ sm.kind = "WaitingToRetry"

----------------------------------------------------------------------------
\* Properties of the framing helpers and the codec (specification SpecCodec)

\* C13: whatever the inbound byte sequence, none of the framing helpers and
\* no entry into ProcessingResponse panics.
C13_FramingNeverPanics ==
  cxOp \in {"strip_sysex_markers", "is_lumatone_message", "message_command_id",
            "message_answer_code", "message_payload", "is_response_to_message",
            "enter"}
    => ~cxOut.panic

\* C14: for every v of at most 28 bits, decode_ping gives back v from the
\* bytes encode_ping wrote for v.
C14_PingRoundTrip ==
  cxOp = "decode_ping" => cxOut.v = Ok(<<"Pong", cxIn.value>>)

\* C15: for each of the four curves and every table of 128 bytes below 128,
\* decoding the bytes the Set command wrote gives back the table.
C15_CurveRoundTrip ==
  cxOp = "unpack_sysex_config_table" =>
    cxOut.v = Ok(<<cxIn.response, cxIn.table>>)

Between(frame) == SubSeq(frame, 2, Len(frame) - 1)

\* C17 as stated: every frame of create_sysex has at least 10 bytes between
\* the start and the end marker.
C17_TenBytesBetweenMarkers ==
  cxOp = "create_sysex" => Len(Between(cxOut.v)) >= 10

\* C17: every frame of create_sysex starts with F0 and ends with F7 and has
\* at least 9 bytes in between: manufacturer id, board, command and data,
\* followed by zero bytes when these are fewer than 9.
C17_NineBytesBetweenMarkers ==
  cxOp = "create_sysex" =>
    LET frame == cxOut.v
        body == MANUFACTURER_ID \o <<cxIn.board, cxIn.cmd>> \o cxIn.data
        Zeros(n) == [i \in 1..n |-> 0]
    IN  /\ frame[1] = SYSEX_START
        /\ frame[Len(frame)] = SYSEX_END
        /\ Len(Between(frame)) >= 9
        /\ Between(frame) =
             body \o Zeros(IF Len(body) < 9 THEN 9 - Len(body) ELSE 0)

\* C17: a frame was built from fewer than four data bytes, and padded
C17_Witness ==
  /\ cxOp = "create_sysex"
  /\ cxIn.data # <<>>
  /\ Len(cxIn.data) < 4
  /\ Len(Between(cxOut.v)) = 9

\* a preset with every key location that is not set as a disabled, black key
Normalised(keymap) ==
  LumatoneKeyMap(
    [loc \in KeyLocations |->
       IF loc \in DOMAIN keymap.keys THEN keymap.keys[loc]
       ELSE KeyDefinition(Disabled, RGBColor(0, 0, 0))],
    keymap.general)

\* C18: parsing the rendered text of a preset gives the preset again, up
\* to the keys that are not set: functions, colours, flags, sensitivity,
\* curves and intervals are the same.
C18_PresetRoundTrip ==
  cxOp = "from_ini_str" =>
    /\ cxOut.v.ok
    /\ Normalised(cxOut.v.v) = Normalised(cxIn.keymap)

\* C19: the compiled list has, for every key location the preset does not
\* set, a command that sets the key to Disabled.
C19_UnsetKeysDisabled ==
  cxOp = "to_midi_commands" =>
    \A loc \in KeyLocations \ DOMAIN cxIn.keymap.keys :
      \E i \in DOMAIN cxOut.v.commands :
        cxOut.v.commands[i] = <<"SetKeyFunction", loc, Disabled>>

\* the names with which the list of a preset starts: the five general
\* commands, the curves that are present, the intervals if present
ExpectedHead(general) ==
  LET tables == general.config_tables
      name(n, option) == IF option = None THEN <<>> ELSE <<n>>
  IN  <<"SetAftertouchEnabled", "SetLightOnKeystrokes", "InvertFootController",
        "InvertSustainPedal", "SetExpressionPedalSensitivity">>
        \o name("SetVelocityConfig", tables.on_off_velocity)
        \o name("SetAftertouchConfig", tables.aftertouch_velocity)
        \o name("SetFaderConfig", tables.fader_velocity)
        \o name("SetLumatouchConfig", tables.lumatouch_velocity)
        \o name("SetVelocityIntervals", tables.velocity_intervals)

\* the list is the head followed by one SetKeyFunction and one SetKeyColor,
\* in this order and for the same location, per key that is set
CompiledInOrder ==
  LET head == ExpectedHead(cxIn.keymap.general)
      n == Len(head)
      keys == DOMAIN cxIn.keymap.keys
      Compiled == cxOut.v.commands
      Names(list) == [i \in DOMAIN list |-> list[i][1]]
  IN  /\ Len(Compiled) = n + 2 * Cardinality(keys)
      /\ SubSeq(Names(Compiled), 1, n) = head
      /\ \A j \in 1..Cardinality(keys) :
           /\ Compiled[n + 2 * j - 1][1] = "SetKeyFunction"
           /\ Compiled[n + 2 * j][1] = "SetKeyColor"
           /\ Compiled[n + 2 * j - 1][2] = Compiled[n + 2 * j][2]
      /\ \A loc \in keys : \E j \in 1..Cardinality(keys) : Compiled[n + 2 * j][2] = loc

\* C20: the compiled list is in the stated order, and the keys are visited
\* in a deterministic order: compiling the preset again gives the same list.
C20_CompiledOrder ==
  cxOp = "to_midi_commands" =>
    /\ CompiledInOrder
    /\ cxOut.v.previous # None => cxOut.v.previous = Some(cxOut.v.commands)

C22_OnlyKeysOfTheFile ==
  cxOp = "from_ini_file" =>
    /\ cxOut.v.ok
    /\ DOMAIN cxOut.v.v.keys =
         {LumatoneKeyLocation(s[2] + 1, key[2]) :
            s \in DOMAIN cxIn.ini, key \in UNION {DOMAIN cxIn.ini[x] : x \in DOMAIN cxIn.ini}}
    /\ (/\ DOMAIN cxIn.ini = {<<"Board", 0>>}
        /\ <<"KTyp_", 0>> \notin DOMAIN cxIn.ini[<<"Board", 0>>]
        /\ cxIn.ini[<<"Board", 0>>][<<"Col_", 0>>] = <<15, 15, 0, 0, 0, 0>>)
       => cxOut.v.v.keys =
            [loc \in {LumatoneKeyLocation(1, 0)} |->
               KeyDefinition(NoteOnOff(1, 60), RGBColor(255, 0, 0))]

\* C23: the loop waits for an event only in Idle, AwaitingResponse or
\* WaitingToRetry: every iteration enters states and feeds the actions back
\* until none is produced, so that after a dispatched response or a fired
\* response timeout the next submission has been written, or the queue is
\* empty and the state is Idle.
C23_WaitsOnlyWhereSettled ==
  running => state.kind \in {"Idle", "AwaitingResponse", "WaitingToRetry"}

\* C24: whenever a frame has been written and the driver is in
\* AwaitingResponse, the receive timeout is armed, so that a missing reply
\* ends in ResponseTimedOut and the rest of the queue is processed.
C24_TimeoutArmedWhileAwaiting ==
  (running /\ state.kind = "AwaitingResponse") => receive_timeout

\* C25: MidiDriver::send does not panic and returns Err for a submission
\* the driver has discarded without a notification: each submission the
\* latest iteration (or the return of run) has removed from the state
\* without writing to its responder has an Err as the result of its send.
C25_SendReturnsErr ==
  \A s \in (Held(last.from) \cup {last.sub}) \ {NoSub} :
    (/\ ~(running /\ s \in Held(state))
     /\ ~(last.effect.type = "NotifyMessageResponse" /\ last.effect.sub = s))
    => /\ ~send_result(s.id).panic
       /\ send_result(s.id).v # None
       /\ ~send_result(s.id).v[1].ok

\* C26: State::next returns Failed for MessageSent outside ProcessingQueue,
\* for ResponseDispatched and DeviceBusy outside ProcessingResponse, for
\* QueueEmpty outside ProcessingQueue or with a non-empty queue, and for
\* SubmitCommand in Failed.
C26_UndefinedTransitionsFail ==
  cxOp = "state_next" =>
    LET s == cxIn.state
        a == cxIn.action.type
    IN  (\/ a = "MessageSent" /\ s.kind # "ProcessingQueue"
         \/ a \in {"ResponseDispatched", "DeviceBusy"} /\ s.kind # "ProcessingResponse"
         \/ a = "QueueEmpty" /\ (s.kind # "ProcessingQueue" \/ s.send_queue # <<>>)
         \/ a = "SubmitCommand" /\ s.kind = "Failed")
        => cxOut.v.kind = "Failed"

\* C26: QueueEmpty was applied to a ProcessingQueue with a non-empty queue,
\* and the result is Failed
C26_Witness ==
  /\ cxOp = "state_next"
  /\ cxIn.action.type = "QueueEmpty"
  /\ cxIn.state.kind = "ProcessingQueue"
  /\ Len(cxIn.state.send_queue) = MaxQueued
  /\ cxOut.v.kind = "Failed"

\* C27: ReadyToRetry in WaitingToRetry gives ProcessingQueue with the
\* submission to retry in front of the queued submissions, which keep their
\* order; entering that state sends the retried submission.
C27_RetryGoesFirst ==
  (/\ cxOp = "state_next"
   /\ cxIn.action.type = "ReadyToRetry"
   /\ cxIn.state.kind = "WaitingToRetry") =>
    /\ cxOut.v = ProcessingQueue(<<cxIn.state.to_retry>> \o cxIn.state.send_queue)
    /\ state_enter(cxOut.v).effect = SendMidiMessage(cxIn.state.to_retry)

\* C27: ReadyToRetry was applied to a WaitingToRetry with a full queue
C27_Witness ==
  /\ cxOp = "state_next"
  /\ cxIn.action.type = "ReadyToRetry"
  /\ cxIn.state.kind = "WaitingToRetry"
  /\ Len(cxIn.state.send_queue) = MaxQueued
  /\ Len(cxOut.v.send_queue) = MaxQueued + 1

\* C28: SubmitCommand(s) in a state other than Failed appends s to the back
\* of the queue and keeps the kind of the state (Idle becomes
\* ProcessingQueue), the submission in flight or to retry, the response
\* bytes, the timeout id and the queued submissions in their order.
C28_SubmitOnlyAppends ==
  (/\ cxOp = "state_next"
   /\ cxIn.action.type = "SubmitCommand"
   /\ cxIn.state.kind # "Failed") =>
    /\ cxOut.v.send_queue = cxIn.state.send_queue \o <<cxIn.action.sub>>
    /\ cxOut.v.kind = (IF cxIn.state.kind = "Idle" THEN "ProcessingQueue"
                       ELSE cxIn.state.kind)
    /\ cxOut.v.command_sent = cxIn.state.command_sent
    /\ cxOut.v.to_retry = cxIn.state.to_retry
    /\ cxOut.v.response_msg = cxIn.state.response_msg
    /\ cxOut.v.timeout_id = cxIn.state.timeout_id

\* C28: a submission was appended behind a full queue while another one
\* was in flight
C28_Witness ==
  /\ cxOp = "state_next"
  /\ cxIn.action.type = "SubmitCommand"
  /\ cxIn.state.kind = "AwaitingResponse"
  /\ Len(cxIn.state.send_queue) = MaxQueued
  /\ cxOut.v.send_queue[MaxQueued + 1] = cxIn.action.sub

\* C29: MessageReceived and ResponseTimedOut in a state other than
\* AwaitingResponse, and ReadyToRetry in a state other than WaitingToRetry,
\* give the state they were applied to.
C29_UnexpectedActionsIgnored ==
  (/\ cxOp = "state_next"
   /\ \/ /\ cxIn.action.type \in {"MessageReceived", "ResponseTimedOut"}
         /\ cxIn.state.kind # "AwaitingResponse"
      \/ /\ cxIn.action.type = "ReadyToRetry"
         /\ cxIn.state.kind # "WaitingToRetry") =>
    cxOut.v = cxIn.state

\* C29: a frame arrived in WaitingToRetry with a full queue, and the state
\* is as before
C29_Witness ==
  /\ cxOp = "state_next"
  /\ cxIn.action.type = "MessageReceived"
  /\ cxIn.state.kind = "WaitingToRetry"
  /\ Len(cxIn.state.send_queue) = MaxQueued
  /\ cxOut.v.kind = "WaitingToRetry"

\* C30: entering ProcessingQueue with a non-empty queue returns
\* SendMidiMessage of the front submission and leaves the queue as it is,
\* the front submission included.
C30_FrontStaysQueued ==
  (/\ cxOp = "state_enter"
   /\ cxIn.state.kind = "ProcessingQueue"
   /\ cxIn.state.send_queue # <<>>) =>
    /\ cxOut.v.effect = SendMidiMessage(Head(cxIn.state.send_queue))
    /\ cxOut.v.state = cxIn.state

----------------------------------------------------------------------------
\* Properties of the crux MidiApp (MidiApp::update under SpecCodec)

\* C31: a CommandSubmission event in Idle sends one frame and leaves the
\* driver in AwaitingResponse with that submission in flight; a SysexReceived
\* with an Ack while a submission is in flight gives exactly one
\* send_command_result for it, dispatches ResponseDispatched and leaves
\* ProcessingResponse, for Idle when the queue is empty.
C31_SubmissionCycle ==
  cxOp = "update" =>
    /\ (cxIn.event.type = "CommandSubmission" /\ cxIn.model.driver_state = Idle) =>
         /\ cxOut.v.effects = <<SendMidiMessage(cxIn.event.sub)>>
         /\ cxOut.v.model.driver_state.kind = "AwaitingResponse"
         /\ cxOut.v.model.driver_state.command_sent = cxIn.event.sub
    /\ (/\ cxIn.event.type = "SysexReceived"
        /\ cxIn.model.driver_state.kind = "AwaitingResponse"
        /\ message_answer_code(cxIn.event.msg) = "Ack") =>
         /\ Cardinality({i \in DOMAIN cxOut.v.effects :
                           /\ cxOut.v.effects[i].type = "NotifyMessageResponse"
                           /\ cxOut.v.effects[i].sub = cxIn.model.driver_state.command_sent})
              = 1
         /\ \E i \in DOMAIN cxOut.v.effects :
              cxOut.v.effects[i] = DispatchAction(ResponseDispatched)
         /\ cxOut.v.model.driver_state.kind # "ProcessingResponse"
         /\ cxIn.model.driver_state.send_queue = <<>> =>
              cxOut.v.model.driver_state = Idle

----------------------------------------------------------------------------
\* Properties of the state machine with its runtimes

C33_HeldInOnePlace ==
  (/\ cxOp = "update"
   /\ cxIn.event.type = "CommandSubmission"
   /\ cxIn.model.driver_state.kind # "Failed"
   /\ cxIn.event.sub \notin Held(cxIn.model.driver_state)) =>
    LET s == cxOut.v.model.driver_state IN
    Cardinality({i \in DOMAIN s.send_queue : s.send_queue[i] = cxIn.event.sub})
      + (IF s.command_sent = cxIn.event.sub THEN 1 ELSE 0)
      + (IF s.to_retry = cxIn.event.sub THEN 1 ELSE 0) = 1

\* C34: an Ok response a waiter receives is decoded from a frame with the
\* board index and command id of the waiter's own command.
C34_OkFromMatchingFrame ==
  (/\ last.effect.type = "NotifyMessageResponse"
   /\ last.effect.res.ok
   /\ \E i \in DOMAIN delivered : delivered[i].id = last.effect.sub.id) =>
    is_response_to_message(to_sysex_message(last.effect.sub.command), last.msg)

\* C35: a timer of the tokio runtime acts on the submission it was armed
\* for.  The receive timer is armed only while a submission is in flight and
\* stays armed only as long as that submission is the one in flight; the
\* retry timer is armed only while a submission waits to be retried and
\* stays armed only as long as that submission is the one waiting.  So the
\* ResponseTimedOut or ReadyToRetry of an armed timer is applied to the
\* submission its timer was armed for.
C35_TimerActsOnItsSubmission ==
  [][/\ receive_timeout' =>
          /\ state'.kind = "AwaitingResponse"
          /\ receive_timeout => state'.command_sent = state.command_sent
     /\ retry_timeout' =>
          /\ state'.kind = "WaitingToRetry"
          /\ retry_timeout => state'.to_retry = state.to_retry]_vars

\* the receive timer has fired with a submission in flight and another queued
C35_Witness ==
  /\ last.act = "ResponseTimedOut"
  /\ last.from.kind = "AwaitingResponse"
  /\ last.from.send_queue # <<>>
  /\ last.effect.type = "SendMidiMessage"

\* C36: an iteration of the tokio loop that handles a SubmitCommand while a
\* receive or retry timer is running performs no StartReceiveTimeout and no
\* StartRetryTimeout, each of which replaces the running timer by a new one
\* of the full duration.
C36_SubmitKeepsRunningTimer ==
  [][(/\ last' # last
      /\ last'.act = "SubmitCommand"
      /\ receive_timeout \/ retry_timeout) =>
       last'.effect.type \notin {"StartReceiveTimeout", "StartRetryTimeout"}]_vars

C39_UnknownTimeoutIgnored ==
  (/\ cxOp = "update"
   /\ cxIn.event.type = "TimeoutElapsed"
   /\ cxIn.model.retry_timeout_id # Some(cxIn.event.id)
   /\ cxIn.model.receive_timeout_id # Some(cxIn.event.id)) =>
    cxOut = Returned([model |-> cxIn.model, effects |-> <<>>])

\* a timeout other than the stored receive timeout has elapsed while a
\* submission is in flight, and the submission is still in flight
C39_Witness ==
  /\ cxOp = "update"
  /\ cxIn.event.type = "TimeoutElapsed"
  /\ cxIn.model.receive_timeout_id \notin {None, Some(cxIn.event.id)}
  /\ cxIn.model.retry_timeout_id = None
  /\ cxIn.model.driver_state.kind = "AwaitingResponse"
  /\ cxOut.v.model.driver_state = cxIn.model.driver_state

====
